---------------------------- MODULE Spec2Model ----------------------------
(***************************************************************************)
(* Batch-job orchestration scripts of the automic repository:             *)
(*   execute_procedure.py           (preflight checks, audit log, force)   *)
(*   execute_clearing_procedure.py  (audit log first, classified errors)   *)
(*   validate_batch_execution.py    (readiness of the batch for a date)    *)
(* The issuer store (sys.objects, dbo.ProcessosProcedures) and the audit   *)
(* store (dbo.HistoricoAutomicLog, dbo.HistoricoAutomicClearingLog) are    *)
(* shared by every invocation; each invocation walks through run_process   *)
(* one database operation at a time, so invocations interleave between     *)
(* operations.  A process that stops (crash, kill) is an invocation that   *)
(* takes no further step.                                                  *)
(***************************************************************************)
EXTENDS Integers, Sequences, FiniteSets, TLC

\* ------------------------------------------------------------------ bounds
\* number of invocations (processes started) in one behaviour
MaxInv == 2
\* number of entries of dbo.ProcessosProcedures besides the routine's own
MaxCatalog == 3

Inv == 1..MaxInv

\* ------------------------------------------------------ program constants
\* execute_procedure.py
SUCCESS_CODE == 0
PROC_CADASTRADA_SERVICO_BATCH_CODE == 100
PROC_JA_EXECUTADA_DATAMOVIMENTO_CODE == 101
PARAM_RUN_DATE_INVALID_CODE == 201
PARAM_REQUIRED_EMPTY_CODE == 202
DATABASE_ERROR_CODE == 203
PROCEDURE_NOT_EXISTS_CODE == 204
\* execute_clearing_procedure.py
CLEARING_PARAMETER_ERROR_CODE == 100
CLEARING_DATABASE_ERROR_CODE == 200
CLEARING_PROCEDURE_ERROR_CODE == 201
\* validate_batch_execution.py (its SUCCESS_CODE, PARAM_RUN_DATE_INVALID_CODE,
\* PARAM_REQUIRED_EMPTY_CODE and DATABASE_ERROR_CODE have the values above)
BATCH_NAO_EXECUTADO_CODE == 100
BATCH_FIM_DE_SEMANA_CODE == 101
BATCH_FERIADO_CODE == 102
BATCH_DATAMOVIMENTO_INEXISTENTE_CODE == 103
BATCH_TIPOMOVIMENTO_INDETERMINADO_CODE == 104

\* StatusExecucao values written by the INSERT and the two UPDATEs
StatusRegistered == 1
StatusSucceeded == 2
StatusFailed == 3

\* exit code of an invocation that has not ended
NoCode == -1
\* cursor.lastrowid before any INSERT (identity values start at 1)
NoRowid == 0

\* SQL NULL of a text or datetime column; text values are sequences of
\* one-character strings, so NULL differs from every text, the empty one too
NULL == <<"NULL">>
\* the value SYSDATETIME() yields: the audit store's clock at the statement
SYSDATETIME == <<"SYSDATETIME">>

\* ----------------------------------------------------------- input domains
EXECUTE == "execute_procedure"
CLEARING == "execute_clearing_procedure"
GATE == "validate_batch_execution"
Variants == {EXECUTE, CLEARING, GATE}

\* the issuer store the invocations of the model connect to
IssuerServer == "10.0.0.1"
IssuerDatabase == "emissor1"
\* --issuer-procedure
Procedures == {"SYNC_POSITIONS"}
\* --run-date
RunDates == {"2024-03-01"}

\* sys.objects of the issuer database, name and type of each object: with the
\* routine, and with a table of that name in place of the routine
ObjectsWith ==
    { [name |-> "SYNC_POSITIONS", type |-> "P"],
      [name |-> "CLOSE_DAY", type |-> "P"],
      [name |-> "REPORTS", type |-> "PC"],
      [name |-> "ControleProcessos", type |-> "U"] }
ObjectsWithout ==
    { [name |-> "SYNC_POSITIONS", type |-> "U"],
      [name |-> "CLOSE_DAY", type |-> "P"],
      [name |-> "REPORTS", type |-> "PC"],
      [name |-> "ControleProcessos", type |-> "U"] }

\* dbo.ProcessosProcedures as the batch service keeps it: Ordem dense 1..N
CatalogWithout ==
    { [Id_Processo |-> 10, NomeProcedure |-> "CLOSE_DAY", Ordem |-> 1],
      [Id_Processo |-> 30, NomeProcedure |-> "REPORTS", Ordem |-> 2] }
CatalogWith ==
    { [Id_Processo |-> 10, NomeProcedure |-> "CLOSE_DAY", Ordem |-> 1],
      [Id_Processo |-> 20, NomeProcedure |-> "SYNC_POSITIONS", Ordem |-> 2],
      [Id_Processo |-> 30, NomeProcedure |-> "REPORTS", Ordem |-> 3] }

\* a DATETIME value: the result of converting the text the statements embed
DatetimeOf(date, time) == [date |-> date, time |-> time]
\* '{run_date} 00:00:00' of the INSERT
DatetimeOfInsert(run_date) == DatetimeOf(run_date, "00:00:00")
\* '{run_date}' of the SELECT: a date without time converts to midnight
DatetimeOfDate(run_date) == DatetimeOf(run_date, "00:00:00")

LogRow(run_date, database, server, procedure, final, message, status) ==
    [ DataMovimento |-> DatetimeOfInsert(run_date),
      Emissor |-> database,
      Ip_servidor |-> server,
      Nome_Procedure |-> procedure,
      DataHoraInicial |-> SYSDATETIME,
      DataHoraFinal |-> final,
      MensagemErro |-> message,
      StatusExecucao |-> status ]

\* the place of a row that was deleted from an audit table: its identity
\* value is not given to another row, and no statement finds a row there
Deleted == [deleted |-> TRUE]

\* dbo.HistoricoAutomicLog as earlier runs against other routines, issuers
\* and reference dates left it
OtherRunsLog ==
    << LogRow("2024-03-01", "emissor1", "10.0.0.1", "CLOSE_DAY", SYSDATETIME, NULL, StatusSucceeded),
       LogRow("2024-03-01", "emissor1", "10.0.0.9", "SYNC_POSITIONS", NULL, NULL, StatusRegistered),
       LogRow("2024-03-01", "emissor2", "10.0.0.1", "SYNC_POSITIONS", SYSDATETIME, NULL, StatusSucceeded),
       LogRow("2024-02-29", "emissor1", "10.0.0.1", "SYNC_POSITIONS", NULL, NULL, StatusRegistered) >>
\* the same, after an earlier run for the tuple of the model that failed
FailedRunLog ==
    Append(OtherRunsLog,
           LogRow("2024-03-01", "emissor1", "10.0.0.1", "SYNC_POSITIONS",
                  SYSDATETIME, <<"e">>, StatusFailed))

\* the stores as an invocation may find them
InitialStores ==
    { [objects |-> ObjectsWith, catalog |-> CatalogWith, log |-> OtherRunsLog],
      [objects |-> ObjectsWith, catalog |-> CatalogWithout, log |-> FailedRunLog],
      [objects |-> ObjectsWithout, catalog |-> CatalogWith, log |-> OtherRunsLog] }

\* ------------------------------------------------------------------- errors
\* str(error) of the errors the driver raises: texts with and without quotes
QUOTE == "'"
RoutineErrors ==
    { [class |-> "OperationalError", text |-> <<"e", QUOTE, "x", QUOTE>>] }
None == [class |-> "None", text |-> <<>>]

\* What the native connection raises in execute_non_query: the exception's
\* type, whether the object has the attributes number, procname, severity,
\* state, line and text, its number and its args[0] text
MSSQLExceptions ==
    { [type |-> "MSSQLDatabaseException", attributes |-> TRUE, number |-> 2812,
       text |-> <<"n", QUOTE, "p", QUOTE>>] }
\* every error family of the script's table and one number outside of them,
\* raised by the database; and the exceptions of the driver's other classes,
\* MSSQLDriverException and a class that is neither, which the driver
\* builds from a message only: the model takes both, with and without the
\* attributes of an error of the database
AllMSSQLExceptions ==
    { [type |-> "MSSQLDatabaseException", attributes |-> TRUE, number |-> n,
       text |-> <<"n", QUOTE, "p", QUOTE>>] :
          n \in {102, 207, 208, 2812, 4104, 515, 547, 2601, 2627, 50000} }
        \cup { [type |-> t, attributes |-> b, number |-> 0, text |-> <<"d">>] :
                  t \in {"MSSQLDriverException", "MSSQLException"}, b \in BOOLEAN }

\* ------------------------------------------------ the batch control tables
\* an INT column: a number, or NULL
SqlInt(v) == [null |-> FALSE, value |-> v]
SqlNullInt == [null |-> TRUE, value |-> 0]
\* DataTerminoProcessos of a batch that has ended
BatchEnd == <<"2024-03-02 01:10:00">>

\* dbo.ControleProcessos: the row of 2024-03-01 with the given TipoMovimento
\* and DataTerminoProcessos, after the row of a Saturday; 2024-03-02 has none
ControlTable(tipo, termino) ==
    { [ DataMovimento |-> DatetimeOf("2024-02-24", "00:00:00"),
        DataTerminoProcessos |-> NULL, TipoMovimento |-> SqlInt(0) ],
      [ DataMovimento |-> DatetimeOf("2024-03-01", "00:00:00"),
        DataTerminoProcessos |-> termino, TipoMovimento |-> tipo ] }
\* TipoMovimento as the batch service writes it, and what else the column holds
TipoMovimentoValues == { SqlInt(v) : v \in 0..3 } \cup { SqlInt(-1), SqlNullInt }
ControlTables ==
    { ControlTable(tipo, termino) :
        tipo \in TipoMovimentoValues, termino \in {NULL, BatchEnd} }

\* dbo.ControleProcessosProcedures: one row of 2024-03-01 for each
\* FlagExecutado of flags, besides a pending row of an earlier date and a
\* running row of the next
FlagValues == 0..3
SubProcessTable(flags) ==
    { [ DataMovimento |-> DatetimeOf("2024-02-24", "00:00:00"),
        Id_Processo |-> 10, FlagExecutado |-> SqlInt(0) ],
      [ DataMovimento |-> DatetimeOf("2024-03-02", "00:00:00"),
        Id_Processo |-> 20, FlagExecutado |-> SqlInt(1) ] }
        \cup { [ DataMovimento |-> DatetimeOf("2024-03-01", "00:00:00"),
                 Id_Processo |-> 10 * (f + 1), FlagExecutado |-> SqlInt(f) ] :
               f \in flags }
SubProcessTables == { SubProcessTable(flags) : flags \in SUBSET FlagValues }

\* ------------------------------------------------------------ command lines
\* an option that was not given (argparse leaves None), and one that the
\* script does not have
NotGiven == "<not given>"
\* values made of blanks only, the empty one included
Blank == {"", " "}
\* str.strip(), on values that are either blank or have no blank at either end
strip(text) == IF text \in Blank THEN "" ELSE text

\* the command line of execute_procedure.py that passes every check
ExecuteLine(force, remove) ==
    [ variant |-> EXECUTE,
      issuer_server |-> IssuerServer, issuer_database |-> IssuerDatabase,
      issuer_user |-> "automic", issuer_password |-> "secret",
      logbatch_server |-> "10.0.0.2", logbatch_database |-> "logbatch",
      logbatch_user |-> "automic", logbatch_password |-> "secret",
      issuer_procedure |-> "SYNC_POSITIONS", run_date |-> "2024-03-01",
      force_execution |-> force, remove_from_batch |-> remove,
      wait_batch_complemento |-> FALSE ]
\* execute_clearing_procedure.py has no --run-date and no switches
ClearingLine ==
    [ ExecuteLine(FALSE, FALSE) EXCEPT !.variant = CLEARING, !.run_date = NotGiven ]
\* validate_batch_execution.py has the issuer options, --run-date and
\* --wait-batch-complemento
GateLine(run_date, wait) ==
    [ ExecuteLine(FALSE, FALSE) EXCEPT
        !.variant = GATE, !.run_date = run_date, !.wait_batch_complemento = wait,
        !.logbatch_server = NotGiven, !.logbatch_database = NotGiven,
        !.logbatch_user = NotGiven, !.logbatch_password = NotGiven,
        !.issuer_procedure = NotGiven ]

\* the required options of the three scripts (required=True)
IssuerOptions == {"issuer_server", "issuer_database", "issuer_user", "issuer_password"}
LogbatchOptions == {"logbatch_server", "logbatch_database", "logbatch_user", "logbatch_password"}
RequiredOptions(variant) ==
    IF variant = GATE THEN IssuerOptions
    ELSE IssuerOptions \cup LogbatchOptions \cup {"issuer_procedure"}
\* --run-date texts: a date, a day that does not exist, another format
BadRunDates == {"2024-02-30", "01/03/2024"}
\* the date of the batch control table that has no row
GateRunDates == RunDates \cup {"2024-03-02"}

\* the command lines whose arguments are all well formed
ValidCmdLines ==
    { ExecuteLine(force, remove) : force \in BOOLEAN, remove \in BOOLEAN }
        \cup {ClearingLine}
GateCmdLines ==
    { GateLine(run_date, wait) : run_date \in GateRunDates, wait \in BOOLEAN }
\* the same with one required value blank, or with another --run-date
BlankCmdLines ==
    UNION { { [line EXCEPT ![option] = value] :
                option \in RequiredOptions(line.variant), value \in Blank } :
            line \in {ExecuteLine(FALSE, FALSE), ClearingLine, GateLine("2024-03-01", FALSE)} }
RunDateCmdLines ==
    { [line EXCEPT !.run_date = value] :
        line \in {ExecuteLine(FALSE, FALSE), GateLine("2024-03-01", TRUE)},
        value \in BadRunDates \cup {"", NotGiven} }
AllCmdLines == ValidCmdLines \cup GateCmdLines \cup BlankCmdLines \cup RunDateCmdLines

\* The characters of a --run-date text as datetime.strptime(text, '%Y-%m-%d')
\* reads them: three numbers and the separator between them.
DateFields(text) ==
    CASE text = "2024-03-01" -> [first |-> 2024, second |-> 3, third |-> 1, sep |-> "-"]
      [] text = "2024-03-02" -> [first |-> 2024, second |-> 3, third |-> 2, sep |-> "-"]
      [] text = "2024-02-30" -> [first |-> 2024, second |-> 2, third |-> 30, sep |-> "-"]
      [] text = "01/03/2024" -> [first |-> 1, second |-> 3, third |-> 2024, sep |-> "/"]
IsLeap(year) == (year % 4 = 0 /\ year % 100 # 0) \/ year % 400 = 0
DaysInMonth(year, month) ==
    IF month = 2 THEN (IF IsLeap(year) THEN 29 ELSE 28)
    ELSE IF month \in {4, 6, 9, 11} THEN 30 ELSE 31
\* datetime.strptime(text, '%Y-%m-%d') raises ValueError
strptime_raises(text) ==
    LET f == DateFields(text)
    IN  ~ ( /\ f.sep = "-"
            /\ f.first \in 1..9999
            /\ f.second \in 1..12
            /\ f.third \in 1..DaysInMonth(f.first, f.second) )

VARIABLES
    cmdlines,                     \* the command lines the scripts are started with
    raisable,                     \* what the native connection raises in this setting
    ControleProcessos,            \* issuer store: the batch control row of each date
    ControleProcessosProcedures,  \* issuer store: the status of each sub-process
    sys_objects,                  \* issuer store: the object catalog
    ProcessosProcedures,          \* issuer store: the batch-service catalog
    HistoricoAutomicLog,          \* audit store: rows of execute_procedure, by identity
    HistoricoAutomicClearingLog,  \* audit store: rows of execute_clearing_procedure
    params,                       \* per invocation: what parse_arguments returned
    pc,                           \* per invocation: position in run_process
    rowid,                        \* per invocation: run_process's rowid
    error,                        \* per invocation: run_process's error
    code,                         \* per invocation: the exit code
    events                        \* per invocation: what it has done so far, in order

vars == << cmdlines, raisable, ControleProcessos, ControleProcessosProcedures,
           sys_objects, ProcessosProcedures, HistoricoAutomicLog, HistoricoAutomicClearingLog,
           params, pc, rowid, error, code, events >>

\* what no script writes: the command lines in use, the failures of the
\* native connection and the tables of the issuer store that the scripts
\* only read
readonly == << cmdlines, raisable, ControleProcessos, ControleProcessosProcedures,
               sys_objects >>

stores == << readonly, ProcessosProcedures, HistoricoAutomicLog, HistoricoAutomicClearingLog >>


\* ------------------------------------------------------- text and SQL text
\* str.replace("'", "''") of update_proc_execution_error
RECURSIVE replace_quote(_)
replace_quote(text) ==
    IF text = <<>> THEN <<>>
    ELSE IF Head(text) = QUOTE
         THEN <<QUOTE, QUOTE>> \o replace_quote(Tail(text))
         ELSE <<Head(text)>> \o replace_quote(Tail(text))

\* The server's reading of the characters placed between the quotes of a
\* string literal '...': a doubled quote is one quote, a single quote ends
\* the literal and what follows it is no longer part of the value.
\* Result: the value, and whether the statement is still well formed.
RECURSIVE SqlLiteral(_)
SqlLiteral(text) ==
    IF text = <<>> THEN [value |-> <<>>, wellformed |-> TRUE]
    ELSE IF Head(text) = QUOTE
         THEN IF Len(text) >= 2 /\ text[2] = QUOTE
              THEN LET rest == SqlLiteral(Tail(Tail(text)))
                   IN  [value |-> <<QUOTE>> \o rest.value, wellformed |-> rest.wellformed]
              ELSE [value |-> <<>>, wellformed |-> FALSE]
         ELSE LET rest == SqlLiteral(Tail(text))
              IN  [value |-> <<Head(text)>> \o rest.value, wellformed |-> rest.wellformed]

\* ----------------------------------------- execute_procedure.py: operations
\* SELECT * FROM sys.objects WHERE object_id = OBJECT_ID(N'dbo.{procedure}')
\*   AND type in (N'P', N'PC');  len(rows) > 0
check_procedure_exists(objects, procedure) ==
    LET rows == { o \in objects : o.name = procedure /\ o.type \in {"P", "PC"} }
    IN  Cardinality(rows) > 0

\* SELECT * FROM dbo.ProcessosProcedures WHERE NomeProcedure = '{procedure}'
check_procedure_in_batch_service(catalog, procedure) ==
    LET rows == { r \in catalog : r.NomeProcedure = procedure }
    IN  Cardinality(rows) > 0

\* A plausible slip: @ProcedureOrdem is read after the DELETE, is NULL, and
\* the UPDATE matches no row.
remove_procedure_from_batch_service_OrdemAfterDelete(catalog, procedure, ProcedureOrdem) ==
    LET deleted == { r \in catalog : r.NomeProcedure = procedure }
    IN  [ catalog |-> catalog \ deleted, affected |-> Cardinality(deleted) ]

\* The batch of remove_procedure_from_batch_service, with @ProcedureOrdem the
\* Ordem the SELECT assigned (the Ordem of a row of that name): DELETE the
\* rows of that name; when rows were deleted, Ordem - 1 for Ordem >= it.
remove_procedure_from_batch_service(catalog, procedure, ProcedureOrdem) ==
    LET deleted  == { r \in catalog : r.NomeProcedure = procedure }
        kept     == catalog \ deleted
        Affected == Cardinality(deleted)
    IN  [ catalog  |-> IF Affected > 0
                       THEN { IF r.Ordem >= ProcedureOrdem
                              THEN [r EXCEPT !.Ordem = r.Ordem - 1]
                              ELSE r : r \in kept }
                       ELSE kept,
          affected |-> Affected ]

\* A plausible slip: the force branch also lets Succeeded rows through
\* (only the non-forced query keeps a status filter).
check_procedure_already_executed_ForceSkipsAll(log, procedure, server, database, run_date, force) ==
    LET rows == { i \in DOMAIN log :
                     /\ log[i].Nome_Procedure = procedure
                     /\ log[i].Ip_servidor = server
                     /\ log[i].Emissor = database
                     /\ log[i].DataMovimento = DatetimeOfDate(run_date)
                     /\ ~force
                     /\ log[i].StatusExecucao \in {StatusRegistered, StatusSucceeded} }
    IN  Cardinality(rows) > 0

\* A plausible slip: the non-forced query filters on Succeeded only.
check_procedure_already_executed_OnlySucceeded(log, procedure, server, database, run_date, force) ==
    LET rows == { i \in DOMAIN log :
                     /\ log[i].Nome_Procedure = procedure
                     /\ log[i].Ip_servidor = server
                     /\ log[i].Emissor = database
                     /\ log[i].DataMovimento = DatetimeOfDate(run_date)
                     /\ log[i].StatusExecucao = StatusSucceeded }
    IN  Cardinality(rows) > 0

\* SELECT * FROM dbo.HistoricoAutomicLog WHERE Nome_Procedure = .. AND
\* Ip_servidor = .. AND Emissor = .. AND DataMovimento = '{run_date}'
\* AND StatusExecucao = 2 (force) / IN (1, 2) (no force);  len(rows) > 0
check_procedure_already_executed(log, procedure, server, database, run_date, force) ==
    LET rows == { i \in DOMAIN log :
                     /\ log[i] # Deleted
                     /\ log[i].Nome_Procedure = procedure
                     /\ log[i].Ip_servidor = server
                     /\ log[i].Emissor = database
                     /\ log[i].DataMovimento = DatetimeOfDate(run_date)
                     /\ IF force
                        THEN log[i].StatusExecucao = StatusSucceeded
                        ELSE log[i].StatusExecucao \in {StatusRegistered, StatusSucceeded} }
    IN  Cardinality(rows) > 0

\* INSERT INTO dbo.HistoricoAutomicLog (...) VALUES ('{run_date} 00:00:00',
\* '{database}', '{server}', '{procedure}', SYSDATETIME(), null, null, 1);
\* commit; cursor.lastrowid is the identity of the inserted row
register_new_proc_execution(log, server, database, procedure, run_date) ==
    [ log       |-> Append(log, LogRow(run_date, database, server, procedure,
                                       NULL, NULL, StatusRegistered)),
      lastrowid |-> Len(log) + 1 ]

\* A plausible slip: the WHERE clause is lost and every row is updated.
update_proc_execution_error_AllRows(log, id, err) ==
    LET literal == SqlLiteral(replace_quote(err.text))
    IN  [ log |-> [ i \in DOMAIN log |->
                      [ log[i] EXCEPT !.DataHoraFinal = SYSDATETIME,
                                      !.MensagemErro = literal.value,
                                      !.StatusExecucao = StatusFailed ] ],
          affected |-> Len(log),
          raised |-> ~literal.wellformed ]

\* UPDATE dbo.HistoricoAutomicLog SET DataHoraFinal = SYSDATETIME(),
\* MensagemErro = '{error_message}', StatusExecucao = 3
\* WHERE HistoricoAutomicLog = {rowid}; the statement is refused when the
\* embedded text leaves it malformed
update_proc_execution_error(log, id, err) ==
    LET error_message == replace_quote(err.text)
        literal       == SqlLiteral(error_message)
        rows          == { i \in DOMAIN log : i = id /\ log[i] # Deleted }
    IN  IF ~literal.wellformed
        THEN [ log |-> log, affected |-> 0, raised |-> TRUE ]
        ELSE [ log |-> [ i \in DOMAIN log |->
                           IF i \in rows
                           THEN [ log[i] EXCEPT !.DataHoraFinal = SYSDATETIME,
                                                !.MensagemErro = literal.value,
                                                !.StatusExecucao = StatusFailed ]
                           ELSE log[i] ],
               affected |-> Cardinality(rows),
               raised |-> FALSE ]

\* A plausible slip: the text after the 2 is not read as the WHERE clause and
\* every row is updated.
update_proc_execution_success_AllRows(log, id) ==
    [ log |-> [ i \in DOMAIN log |->
                  [ log[i] EXCEPT !.DataHoraFinal = SYSDATETIME,
                                  !.StatusExecucao = StatusSucceeded ] ],
      affected |-> Len(log) ]

\* UPDATE dbo.HistoricoAutomicLog SET DataHoraFinal = SYSDATETIME(),
\* StatusExecucao = 2WHERE HistoricoAutomicLog = {rowid}
\* (the server's scanner ends the number at the W, so the statement is the
\* UPDATE with its WHERE clause)
update_proc_execution_success(log, id) ==
    LET rows == { i \in DOMAIN log : i = id /\ log[i] # Deleted }
    IN  [ log |-> [ i \in DOMAIN log |->
                      IF i \in rows
                      THEN [ log[i] EXCEPT !.DataHoraFinal = SYSDATETIME,
                                           !.StatusExecucao = StatusSucceeded ]
                      ELSE log[i] ],
          affected |-> Cardinality(rows) ]

\* A plausible slip: the invalid date returns the constant next to the one
\* meant, a code of the business range.
validate_params_DateAsBusinessCode(a) ==
    IF \E option \in {"issuer_server", "issuer_database", "issuer_user",
                       "logbatch_server", "logbatch_database", "logbatch_user",
                       "issuer_procedure"} : strip(a[option]) = ""
    THEN PARAM_REQUIRED_EMPTY_CODE
    ELSE IF a.run_date # "" /\ a.run_date # NotGiven /\ strptime_raises(a.run_date)
         THEN PROC_JA_EXECUTADA_DATAMOVIMENTO_CODE
         ELSE SUCCESS_CODE

\* validate_params of execute_procedure.py: the first check that fails
\* decides the code
validate_params(a) ==
    IF strip(a.issuer_server) = "" THEN PARAM_REQUIRED_EMPTY_CODE
    ELSE IF strip(a.issuer_database) = "" THEN PARAM_REQUIRED_EMPTY_CODE
    ELSE IF strip(a.issuer_user) = "" THEN PARAM_REQUIRED_EMPTY_CODE
    ELSE IF strip(a.logbatch_server) = "" THEN PARAM_REQUIRED_EMPTY_CODE
    ELSE IF strip(a.logbatch_database) = "" THEN PARAM_REQUIRED_EMPTY_CODE
    ELSE IF strip(a.logbatch_user) = "" THEN PARAM_REQUIRED_EMPTY_CODE
    ELSE IF strip(a.issuer_procedure) = "" THEN PARAM_REQUIRED_EMPTY_CODE
    ELSE IF a.run_date # "" /\ a.run_date # NotGiven /\ strptime_raises(a.run_date)
         THEN PARAM_RUN_DATE_INVALID_CODE
         ELSE SUCCESS_CODE

\* ------------------------------------------------------ invocation plumbing
NoParams ==
    [ variant |-> "none",
      issuer_server |-> "", issuer_database |-> "",
      issuer_user |-> "", issuer_password |-> "",
      logbatch_server |-> "", logbatch_database |-> "",
      logbatch_user |-> "", logbatch_password |-> "",
      issuer_procedure |-> "", run_date |-> "",
      force_execution |-> FALSE, remove_from_batch |-> FALSE,
      wait_batch_complemento |-> FALSE ]

Goto(p, label) == pc' = [pc EXCEPT ![p] = label] /\ UNCHANGED code
Exit(p, c) == pc' = [pc EXCEPT ![p] = "done"] /\ code' = [code EXCEPT ![p] = c]
Record(p, e) == events' = [events EXCEPT ![p] = Append(@, e)]
Record2(p, e1, e2) == events' = [events EXCEPT ![p] = @ \o <<e1, e2>>]
\* the finalize update was accepted; affected is its cursor.rowcount
Finalized(p, e, affected) ==
    events' = [events EXCEPT ![p] =
                 @ \o <<"finalize_issued", e>>
                   \o (IF affected = 0 THEN <<"no_row_updated">> ELSE <<>>)]
\* a pymssql.Error leaves the operation: the run ends with code c
Raise(p, c, evs) ==
    /\ Exit(p, c)
    /\ events' = [events EXCEPT ![p] = @ \o evs]
    /\ UNCHANGED << stores, params, rowid, error >>
Has(p, e) == \E i \in DOMAIN events[p] : events[p][i] = e
At(p, variant, label) == params[p].variant = variant /\ pc[p] = label

\* invocations are numbered in the order they start
MayStart(p) == pc[p] = "idle" /\ \A q \in Inv : q < p => pc[q] # "idle"

\* no invocation has started
InitInvocations ==
    /\ params = [p \in Inv |-> NoParams]
    /\ pc = [p \in Inv |-> "idle"]
    /\ rowid = [p \in Inv |-> NoRowid]
    /\ error = [p \in Inv |-> None]
    /\ code = [p \in Inv |-> NoCode]
    /\ events = [p \in Inv |-> <<>>]

\* execute_procedure.py and execute_clearing_procedure.py, started with well
\* formed command lines
Init ==
    /\ cmdlines = ValidCmdLines
    /\ raisable = MSSQLExceptions
    /\ ControleProcessos = ControlTable(SqlInt(1), BatchEnd)
    /\ ControleProcessosProcedures = SubProcessTable({2})
    /\ \E s \in InitialStores :
          /\ sys_objects = s.objects
          /\ ProcessosProcedures = s.catalog
          /\ HistoricoAutomicLog = s.log
    /\ HistoricoAutomicClearingLog = <<>>
    /\ InitInvocations

\* --------------------------------------- execute_procedure.py: run_process
\* main: params = parse_arguments(argv); code = validate_params(params);
\* when it is 0, a --run-date left out or empty becomes yesterday's date and
\* run_process starts
main(p) ==
    /\ MayStart(p)
    /\ \E a \in { line \in cmdlines : line.variant = EXECUTE } :
          LET c == validate_params(a)
          IN  IF c = SUCCESS_CODE
              THEN /\ \E yesterday \in RunDates :
                        params' = [params EXCEPT ![p] =
                                     IF a.run_date \in {"", NotGiven}
                                     THEN [a EXCEPT !.run_date = yesterday]
                                     ELSE a]
                   /\ Goto(p, "connect")
              ELSE /\ params' = [params EXCEPT ![p] = a]
                   /\ Exit(p, c)
    /\ UNCHANGED << stores, rowid, error, events >>

\* except pymssql.Error: return DATABASE_ERROR_CODE
run_process_except(p) == Raise(p, DATABASE_ERROR_CODE, <<"raised">>)

\* with (db_connect(issuer) as issuer_conn, db_connect(logbatch) as logbatch_conn)
run_process_connect(p) ==
    /\ At(p, EXECUTE, "connect")
    /\ \/ /\ Goto(p, "check_exists")
          /\ Record(p, "connected")
          /\ UNCHANGED << stores, params, rowid, error >>
       \/ run_process_except(p)

\* A plausible slip: the missing routine returns the code of the except
\* clause.
run_process_check_exists_NotFoundAsDatabaseError(p) ==
    /\ At(p, EXECUTE, "check_exists")
    /\ \/ /\ check_procedure_exists(sys_objects, params[p].issuer_procedure)
          /\ Goto(p, "check_batch")
          /\ Record(p, "passed_exists")
          /\ UNCHANGED << stores, params, rowid, error >>
       \/ /\ ~check_procedure_exists(sys_objects, params[p].issuer_procedure)
          /\ Exit(p, DATABASE_ERROR_CODE)
          /\ UNCHANGED << stores, params, rowid, error, events >>
       \/ run_process_except(p)

\* A plausible slip: the catalog is looked at first, so that a routine that
\* is missing but still in the catalog ends with the catalog's code.
run_process_check_exists_CatalogFirst(p) ==
    /\ At(p, EXECUTE, "check_exists")
    /\ \/ /\ check_procedure_exists(sys_objects, params[p].issuer_procedure)
          /\ Goto(p, "check_batch")
          /\ Record(p, "passed_exists")
          /\ UNCHANGED << stores, params, rowid, error >>
       \/ /\ ~check_procedure_exists(sys_objects, params[p].issuer_procedure)
          /\ IF check_procedure_in_batch_service(ProcessosProcedures,
                                                 params[p].issuer_procedure)
             THEN Exit(p, PROC_CADASTRADA_SERVICO_BATCH_CODE)
             ELSE Exit(p, PROCEDURE_NOT_EXISTS_CODE)
          /\ UNCHANGED << stores, params, rowid, error, events >>
       \/ run_process_except(p)

\* if not check_procedure_exists(...): return PROCEDURE_NOT_EXISTS_CODE
run_process_check_exists(p) ==
    /\ At(p, EXECUTE, "check_exists")
    /\ \/ /\ check_procedure_exists(sys_objects, params[p].issuer_procedure)
          /\ Goto(p, "check_batch")
          /\ Record(p, "passed_exists")
          /\ UNCHANGED << stores, params, rowid, error >>
       \/ /\ ~check_procedure_exists(sys_objects, params[p].issuer_procedure)
          /\ Exit(p, PROCEDURE_NOT_EXISTS_CODE)
          /\ UNCHANGED << stores, params, rowid, error, events >>
       \/ run_process_except(p)

\* A plausible slip: the registration is moved before the catalog check.
run_process_check_batch_RegistersFirst(p) ==
    /\ At(p, EXECUTE, "check_batch")
    /\ LET exists == check_procedure_in_batch_service(ProcessosProcedures,
                                                      params[p].issuer_procedure)
           r == register_new_proc_execution(
                    HistoricoAutomicLog, params[p].issuer_server,
                    params[p].issuer_database, params[p].issuer_procedure,
                    params[p].run_date)
       IN  /\ HistoricoAutomicLog' = r.log
           /\ rowid' = [rowid EXCEPT ![p] = r.lastrowid]
           /\ UNCHANGED << readonly, ProcessosProcedures, HistoricoAutomicClearingLog,
                           params, error >>
           /\ \/ /\ exists /\ params[p].remove_from_batch
                 /\ Goto(p, "remove_batch")
                 /\ Record(p, "registered")
              \/ /\ exists /\ ~params[p].remove_from_batch
                 /\ Exit(p, PROC_CADASTRADA_SERVICO_BATCH_CODE)
                 /\ Record(p, "registered")
              \/ /\ ~exists
                 /\ Goto(p, "check_executed")
                 /\ Record2(p, "registered", "passed_batch")

\* A plausible slip: --force-execution also lets a routine of the catalog
\* through.
run_process_check_batch_ForceRelaxes(p) ==
    /\ At(p, EXECUTE, "check_batch")
    /\ LET exists == check_procedure_in_batch_service(ProcessosProcedures,
                                                      params[p].issuer_procedure)
       IN  \/ /\ exists /\ params[p].remove_from_batch
              /\ Goto(p, "remove_batch")
              /\ UNCHANGED << stores, params, rowid, error, events >>
           \/ /\ exists /\ ~params[p].remove_from_batch /\ ~params[p].force_execution
              /\ Exit(p, PROC_CADASTRADA_SERVICO_BATCH_CODE)
              /\ UNCHANGED << stores, params, rowid, error, events >>
           \/ /\ ~exists \/ (~params[p].remove_from_batch /\ params[p].force_execution)
              /\ Goto(p, "check_executed")
              /\ Record(p, "passed_batch")
              /\ UNCHANGED << stores, params, rowid, error >>
           \/ run_process_except(p)

\* A plausible slip: with --remove-from-batch the entry is let through without
\* being removed.
run_process_check_batch_SkipsRemoval(p) ==
    /\ At(p, EXECUTE, "check_batch")
    /\ LET exists == check_procedure_in_batch_service(ProcessosProcedures,
                                                      params[p].issuer_procedure)
       IN  \/ /\ exists /\ ~params[p].remove_from_batch
              /\ Exit(p, PROC_CADASTRADA_SERVICO_BATCH_CODE)
              /\ UNCHANGED << stores, params, rowid, error, events >>
           \/ /\ ~exists \/ params[p].remove_from_batch
              /\ Goto(p, "check_executed")
              /\ Record(p, "passed_batch")
              /\ UNCHANGED << stores, params, rowid, error >>
           \/ run_process_except(p)

\* exists = check_procedure_in_batch_service(...) and the branch on it
run_process_check_batch(p) ==
    /\ At(p, EXECUTE, "check_batch")
    /\ LET exists == check_procedure_in_batch_service(ProcessosProcedures,
                                                      params[p].issuer_procedure)
       IN  \/ /\ exists /\ params[p].remove_from_batch
              /\ Goto(p, "remove_batch")
              /\ UNCHANGED << stores, params, rowid, error, events >>
           \/ /\ exists /\ ~params[p].remove_from_batch
              /\ Exit(p, PROC_CADASTRADA_SERVICO_BATCH_CODE)
              /\ UNCHANGED << stores, params, rowid, error, events >>
           \/ /\ ~exists
              /\ Goto(p, "check_executed")
              /\ Record(p, "passed_batch")
              /\ UNCHANGED << stores, params, rowid, error >>
           \/ run_process_except(p)

\* remove_procedure_from_batch_service(issuer_conn, procedure)
run_process_remove_from_batch(p) ==
    /\ At(p, EXECUTE, "remove_batch")
    /\ \/ /\ \E row \in { r \in ProcessosProcedures :
                            r.NomeProcedure = params[p].issuer_procedure } :
                ProcessosProcedures' =
                    remove_procedure_from_batch_service(
                        ProcessosProcedures, params[p].issuer_procedure, row.Ordem).catalog
          /\ Goto(p, "check_executed")
          /\ Record2(p, "removed_from_batch", "passed_batch")
          /\ UNCHANGED << readonly, HistoricoAutomicLog, HistoricoAutomicClearingLog,
                          params, rowid, error >>
       \/ \* another invocation removed the rows meanwhile: nothing is deleted
          /\ ~check_procedure_in_batch_service(ProcessosProcedures,
                                               params[p].issuer_procedure)
          /\ Goto(p, "check_executed")
          /\ Record(p, "passed_batch")
          /\ UNCHANGED << stores, params, rowid, error >>
       \/ run_process_except(p)

\* A plausible slip: the registration is moved before the idempotency check,
\* which then reads the row just inserted.
run_process_check_executed_RegistersFirst(p) ==
    /\ At(p, EXECUTE, "check_executed")
    /\ LET r == register_new_proc_execution(
                    HistoricoAutomicLog, params[p].issuer_server,
                    params[p].issuer_database, params[p].issuer_procedure,
                    params[p].run_date)
           executed == check_procedure_already_executed(
                           r.log, params[p].issuer_procedure,
                           params[p].issuer_server, params[p].issuer_database,
                           params[p].run_date, params[p].force_execution)
       IN  /\ HistoricoAutomicLog' = r.log
           /\ rowid' = [rowid EXCEPT ![p] = r.lastrowid]
           /\ UNCHANGED << readonly, ProcessosProcedures, HistoricoAutomicClearingLog,
                           params, error >>
           /\ \/ /\ executed
                 /\ Exit(p, PROC_JA_EXECUTADA_DATAMOVIMENTO_CODE)
                 /\ Record(p, "registered")
              \/ /\ ~executed
                 /\ Goto(p, "execute")
                 /\ Record2(p, "registered", "passed_executed")

\* A plausible slip: the registration call is dropped and the routine is run
\* right after the idempotency check.
run_process_check_executed_SkipsRegistration(p) ==
    /\ At(p, EXECUTE, "check_executed")
    /\ LET executed == check_procedure_already_executed(
                           HistoricoAutomicLog, params[p].issuer_procedure,
                           params[p].issuer_server, params[p].issuer_database,
                           params[p].run_date, params[p].force_execution)
       IN  \/ /\ executed
              /\ Exit(p, PROC_JA_EXECUTADA_DATAMOVIMENTO_CODE)
              /\ UNCHANGED << stores, params, rowid, error, events >>
           \/ /\ ~executed
              /\ Goto(p, "execute")
              /\ Record(p, "passed_executed")
              /\ UNCHANGED << stores, params, rowid, error >>

\* if check_procedure_already_executed(...): return PROC_JA_EXECUTADA_DATAMOVIMENTO_CODE
run_process_check_executed(p) ==
    /\ At(p, EXECUTE, "check_executed")
    /\ LET executed == check_procedure_already_executed(
                           HistoricoAutomicLog, params[p].issuer_procedure,
                           params[p].issuer_server, params[p].issuer_database,
                           params[p].run_date, params[p].force_execution)
       IN  \/ /\ executed
              /\ Exit(p, PROC_JA_EXECUTADA_DATAMOVIMENTO_CODE)
              /\ UNCHANGED << stores, params, rowid, error, events >>
           \/ /\ ~executed
              /\ Goto(p, "register")
              /\ Record(p, "passed_executed")
              /\ UNCHANGED << stores, params, rowid, error >>
           \/ run_process_except(p)

\* rowid = register_new_proc_execution(logbatch_conn, ...)
run_process_register(p) ==
    /\ At(p, EXECUTE, "register")
    /\ \/ LET r == register_new_proc_execution(
                       HistoricoAutomicLog, params[p].issuer_server,
                       params[p].issuer_database, params[p].issuer_procedure,
                       params[p].run_date)
          IN  /\ HistoricoAutomicLog' = r.log
              /\ rowid' = [rowid EXCEPT ![p] = r.lastrowid]
              /\ Goto(p, "execute")
              /\ Record(p, "registered")
              /\ UNCHANGED << readonly, ProcessosProcedures, HistoricoAutomicClearingLog,
                              params, error >>
       \/ run_process_except(p)

\* execute_procedure: cursor.execute("SET DEADLOCK_PRIORITY HIGH; EXEC ...") is sent
execute_procedure_begin(p) ==
    /\ At(p, EXECUTE, "execute")
    /\ Goto(p, "executing")
    /\ Record(p, "invoke_started")
    /\ UNCHANGED << stores, params, rowid, error >>

\* A plausible slip: a first failure of the routine sends the run back to
\* execute it once more.
execute_procedure_end_RetriesOnError(p) ==
    /\ At(p, EXECUTE, "executing")
    /\ \/ /\ error' = [error EXCEPT ![p] = None]
          /\ Goto(p, "finalize")
          /\ Record2(p, "routine_committed", "invoke_returned")
          /\ UNCHANGED << stores, params, rowid >>
       \/ /\ \E e \in RoutineErrors : error' = [error EXCEPT ![p] = e]
          /\ IF Has(p, "routine_failed") THEN Goto(p, "finalize") ELSE Goto(p, "execute")
          /\ Record2(p, "routine_failed", "invoke_returned")
          /\ UNCHANGED << stores, params, rowid >>
       \/ Raise(p, DATABASE_ERROR_CODE, <<"routine_failed", "rollback_raised">>)

\* execute_procedure: the routine ends; commit and return None, or
\* except pymssql.Error: conn.rollback(); return error
execute_procedure_end(p) ==
    /\ At(p, EXECUTE, "executing")
    /\ \/ /\ error' = [error EXCEPT ![p] = None]
          /\ Goto(p, "finalize")
          /\ Record2(p, "routine_committed", "invoke_returned")
          /\ UNCHANGED << stores, params, rowid >>
       \/ /\ \E e \in RoutineErrors : error' = [error EXCEPT ![p] = e]
          /\ Goto(p, "finalize")
          /\ Record2(p, "routine_failed", "invoke_returned")
          /\ UNCHANGED << stores, params, rowid >>
       \/ \* conn.rollback() raises inside the handler: the error leaves
          \* execute_procedure and reaches run_process's except
          Raise(p, DATABASE_ERROR_CODE, <<"routine_failed", "rollback_raised">>)

\* A plausible slip: the return after update_proc_execution_error is lost, so
\* the run goes on to update_proc_execution_success and returns SUCCESS_CODE.
run_process_update_error_FallsThrough(p) ==
    /\ At(p, EXECUTE, "finalize")
    /\ error[p] # None
    /\ LET u == update_proc_execution_error(HistoricoAutomicLog, rowid[p], error[p])
           v == update_proc_execution_success(u.log, rowid[p])
       IN  \/ /\ ~u.raised
              /\ HistoricoAutomicLog' = v.log
              /\ Exit(p, SUCCESS_CODE)
              /\ Finalized(p, "update_error", u.affected)
              /\ UNCHANGED << readonly, ProcessosProcedures, HistoricoAutomicClearingLog,
                              params, rowid, error >>
           \/ Raise(p, DATABASE_ERROR_CODE, <<"finalize_issued", "raised">>)

\* if error is not None: update_proc_execution_error(...); return DATABASE_ERROR_CODE
run_process_update_error(p) ==
    /\ At(p, EXECUTE, "finalize")
    /\ error[p] # None
    /\ LET u == update_proc_execution_error(HistoricoAutomicLog, rowid[p], error[p])
       IN  \/ /\ ~u.raised
              /\ HistoricoAutomicLog' = u.log
              /\ Exit(p, DATABASE_ERROR_CODE)
              /\ Finalized(p, "update_error", u.affected)
              /\ UNCHANGED << readonly, ProcessosProcedures, HistoricoAutomicClearingLog,
                              params, rowid, error >>
           \/ Raise(p, DATABASE_ERROR_CODE, <<"finalize_issued", "raised">>)

\* A plausible slip: the count the update returns is taken as its outcome, and
\* an update of no row ends the run as a database error.
run_process_update_success_ZeroRowsFails(p) ==
    /\ At(p, EXECUTE, "finalize")
    /\ error[p] = None
    /\ LET u == update_proc_execution_success(HistoricoAutomicLog, rowid[p])
       IN  \/ /\ HistoricoAutomicLog' = u.log
              /\ IF u.affected = 0
                 THEN Exit(p, DATABASE_ERROR_CODE)
                 ELSE Exit(p, SUCCESS_CODE)
              /\ Finalized(p, "update_success", u.affected)
              /\ UNCHANGED << readonly, ProcessosProcedures, HistoricoAutomicClearingLog,
                              params, rowid, error >>
           \/ Raise(p, DATABASE_ERROR_CODE, <<"finalize_issued", "raised">>)

\* update_proc_execution_success(logbatch_conn, rowid); return SUCCESS_CODE
run_process_update_success(p) ==
    /\ At(p, EXECUTE, "finalize")
    /\ error[p] = None
    /\ LET u == update_proc_execution_success(HistoricoAutomicLog, rowid[p])
       IN  \/ /\ HistoricoAutomicLog' = u.log
              /\ Exit(p, SUCCESS_CODE)
              /\ Finalized(p, "update_success", u.affected)
              /\ UNCHANGED << readonly, ProcessosProcedures, HistoricoAutomicClearingLog,
                              params, rowid, error >>
           \/ Raise(p, DATABASE_ERROR_CODE, <<"finalize_issued", "raised">>)

\* ------------------------------- execute_clearing_procedure.py: operations
ClearingRow(database, server, procedure, final, message, status) ==
    [ DataExecucao |-> <<"CAST(SYSDATETIME() AS DATE)">>,
      Emissor |-> database,
      Ip_servidor |-> server,
      Nome_Procedure |-> procedure,
      DataHoraInicial |-> SYSDATETIME,
      DataHoraFinal |-> final,
      MensagemErro |-> message,
      StatusExecucao |-> status ]

\* INSERT INTO dbo.HistoricoAutomicClearingLog (...) VALUES (CAST(SYSDATETIME()
\* AS DATE), '{database}', '{server}', '{procedure}', SYSDATETIME(), null, null, 1)
clearing_register_new_proc_execution(log, server, database, procedure) ==
    [ log       |-> Append(log, ClearingRow(database, server, procedure,
                                            NULL, NULL, StatusRegistered)),
      lastrowid |-> Len(log) + 1 ]

\* UPDATE dbo.HistoricoAutomicClearingLog SET DataHoraFinal = SYSDATETIME(),
\* StatusExecucao = 2WHERE HistoricoAutomicClearingLog = {rowid}
clearing_update_proc_execution_success(log, id) ==
    LET rows == { i \in DOMAIN log : i = id /\ log[i] # Deleted }
    IN  [ log |-> [ i \in DOMAIN log |->
                      IF i \in rows
                      THEN [ log[i] EXCEPT !.DataHoraFinal = SYSDATETIME,
                                           !.StatusExecucao = StatusSucceeded ]
                      ELSE log[i] ],
          affected |-> Cardinality(rows) ]

\* UPDATE dbo.HistoricoAutomicClearingLog SET DataHoraFinal = SYSDATETIME(),
\* MensagemErro = '{error_message}', StatusExecucao = 3
\* WHERE HistoricoAutomicClearingLog = {rowid}
clearing_update_proc_execution_error(log, id, err) ==
    LET error_message == replace_quote(err.text)
        literal       == SqlLiteral(error_message)
        rows          == { i \in DOMAIN log : i = id /\ log[i] # Deleted }
    IN  IF ~literal.wellformed
        THEN [ log |-> log, affected |-> 0, raised |-> TRUE ]
        ELSE [ log |-> [ i \in DOMAIN log |->
                           IF i \in rows
                           THEN [ log[i] EXCEPT !.DataHoraFinal = SYSDATETIME,
                                                !.MensagemErro = literal.value,
                                                !.StatusExecucao = StatusFailed ]
                           ELSE log[i] ],
               affected |-> Cardinality(rows),
               raised |-> FALSE ]

\* check_procedure_exists of the clearing script: None when the routine is
\* there, else Exception("Procedure '{procedure}' not found or user does not
\* have permission to execute.")
ProcedureNotFound ==
    [class |-> "Exception", text |-> <<"P", QUOTE, "p", QUOTE, "n">>]
clearing_check_procedure_exists(objects, procedure) ==
    LET rows == { o \in objects : o.name = procedure /\ o.type \in {"P", "PC"} }
    IN  IF Cardinality(rows) > 0 THEN None ELSE ProcedureNotFound

\* exit status of the interpreter when an exception leaves main uncaught
UNCAUGHT_EXCEPTION_CODE == 1

\* execute_procedure of the clearing script, except MSSQLException branch:
\* msg_tuple += (summary line,); class_ex by type and number; class_ex(msg_tuple)
clearing_classify(raised) ==
    LET msg_tuple == <<"(">> \o raised.text \o <<",", QUOTE, "S", QUOTE, ")">>
        class_ex ==
            IF raised.type = "MSSQLDatabaseException"
            THEN IF raised.number \in {102, 207, 208, 2812, 4104}
                 THEN "ProgrammingError"
                 ELSE IF raised.number \in {515, 547, 2601, 2627}
                      THEN "IntegrityError"
                      ELSE "OperationalError"
            ELSE IF raised.type = "MSSQLDriverException"
                 THEN "InternalError"
                 ELSE "DatabaseError"
    IN  [class |-> class_ex, text |-> msg_tuple]

\* execute_procedure of the clearing script, the whole except MSSQLException
\* clause: number = error.number and the reads after it come before the test
\* of the type, and raise AttributeError on an object without the attribute;
\* that error is raised inside the handler and leaves execute_procedure
clearing_execute_procedure_except(raised) ==
    IF raised.attributes
    THEN [uncaught |-> FALSE, error |-> clearing_classify(raised)]
    ELSE [uncaught |-> TRUE, error |-> [class |-> "AttributeError", text |-> <<"a">>]]

\* -------------------------------- execute_clearing_procedure.py: run_process
\* parse_arguments of the clearing script: ValidateEmptyStringAction calls
\* parser.error on a blank value, and CustomArgumentParser.error exits with
\* PARAMETER_ERROR_CODE
clearing_parse_arguments(a) ==
    IF \E option \in RequiredOptions(CLEARING) : strip(a[option]) = ""
    THEN CLEARING_PARAMETER_ERROR_CODE
    ELSE SUCCESS_CODE

\* main: params = parse_arguments(argv); run_process starts
clearing_main(p) ==
    /\ MayStart(p)
    /\ \E a \in { line \in cmdlines : line.variant = CLEARING } :
          LET c == clearing_parse_arguments(a)
          IN  /\ params' = [params EXCEPT ![p] = a]
              /\ IF c = SUCCESS_CODE THEN Goto(p, "register") ELSE Exit(p, c)
    /\ UNCHANGED << stores, rowid, error, events >>

\* except pymssql.Error: return DATABASE_ERROR_CODE
clearing_run_process_except(p) == Raise(p, CLEARING_DATABASE_ERROR_CODE, <<"raised">>)

\* rowid = register_new_proc_execution(logbatch_conn_params, ...)
clearing_run_process_register(p) ==
    /\ At(p, CLEARING, "register")
    /\ \/ LET r == clearing_register_new_proc_execution(
                       HistoricoAutomicClearingLog, params[p].issuer_server,
                       params[p].issuer_database, params[p].issuer_procedure)
          IN  /\ HistoricoAutomicClearingLog' = r.log
              /\ rowid' = [rowid EXCEPT ![p] = r.lastrowid]
              /\ Goto(p, "check_exists")
              /\ Record(p, "registered")
              /\ UNCHANGED << readonly, ProcessosProcedures, HistoricoAutomicLog, params, error >>
       \/ clearing_run_process_except(p)

\* error = check_procedure_exists(issuer_conn_params, procedure); a
\* pymssql.Error of the connection or the query is returned, not raised
clearing_run_process_check_exists(p) ==
    /\ At(p, CLEARING, "check_exists")
    /\ \/ LET e == clearing_check_procedure_exists(sys_objects, params[p].issuer_procedure)
          IN  /\ error' = [error EXCEPT ![p] = e]
              /\ IF e = None
                 THEN Goto(p, "execute") /\ Record(p, "passed_exists")
                 ELSE Goto(p, "finalize") /\ Record(p, "exists_failed")
              /\ UNCHANGED << stores, params, rowid >>
       \/ /\ \E e \in RoutineErrors : error' = [error EXCEPT ![p] = e]
          /\ Goto(p, "finalize")
          /\ Record(p, "exists_failed")
          /\ UNCHANGED << stores, params, rowid >>

\* execute_procedure: db_connect, set_msghandler, execute_non_query is sent
clearing_execute_procedure_begin(p) ==
    /\ At(p, CLEARING, "execute")
    /\ Goto(p, "executing")
    /\ Record(p, "invoke_started")
    /\ UNCHANGED << stores, params, rowid, error >>

\* execute_procedure: return None, the pymssql.Error, or the classified
\* error; an exception raised inside the except clause is no pymssql.Error,
\* leaves run_process and main, and the interpreter ends the process
clearing_execute_procedure_end(p) ==
    /\ At(p, CLEARING, "executing")
    /\ \/ /\ error' = [error EXCEPT ![p] = None]
          /\ Record2(p, "routine_committed", "invoke_returned")
          /\ Goto(p, "finalize")
       \/ /\ \E e \in RoutineErrors : error' = [error EXCEPT ![p] = e]
          /\ Record2(p, "routine_failed", "invoke_returned")
          /\ Goto(p, "finalize")
       \/ \E raised \in raisable :
             LET r == clearing_execute_procedure_except(raised)
             IN  /\ error' = [error EXCEPT ![p] = r.error]
                 /\ IF r.uncaught
                    THEN /\ Exit(p, UNCAUGHT_EXCEPTION_CODE)
                         /\ events' = [events EXCEPT ![p] =
                                          @ \o <<"routine_failed", "uncaught">>]
                    ELSE /\ Goto(p, "finalize")
                         /\ Record2(p, "routine_failed", "invoke_returned")
    /\ UNCHANGED << stores, params, rowid >>

\* if error is not None: update_proc_execution_error(...); return PROCEDURE_ERROR_CODE
clearing_run_process_update_error(p) ==
    /\ At(p, CLEARING, "finalize")
    /\ error[p] # None
    /\ LET u == clearing_update_proc_execution_error(
                    HistoricoAutomicClearingLog, rowid[p], error[p])
       IN  \/ /\ ~u.raised
              /\ HistoricoAutomicClearingLog' = u.log
              /\ Exit(p, CLEARING_PROCEDURE_ERROR_CODE)
              /\ Finalized(p, "update_error", u.affected)
              /\ UNCHANGED << readonly, ProcessosProcedures, HistoricoAutomicLog,
                              params, rowid, error >>
           \/ Raise(p, CLEARING_DATABASE_ERROR_CODE, <<"finalize_issued", "raised">>)

\* update_proc_execution_success(logbatch_conn_params, rowid); return SUCCESS_CODE
clearing_run_process_update_success(p) ==
    /\ At(p, CLEARING, "finalize")
    /\ error[p] = None
    /\ LET u == clearing_update_proc_execution_success(
                    HistoricoAutomicClearingLog, rowid[p])
       IN  \/ /\ HistoricoAutomicClearingLog' = u.log
              /\ Exit(p, SUCCESS_CODE)
              /\ Finalized(p, "update_success", u.affected)
              /\ UNCHANGED << readonly, ProcessosProcedures, HistoricoAutomicLog,
                              params, rowid, error >>
           \/ Raise(p, CLEARING_DATABASE_ERROR_CODE, <<"finalize_issued", "raised">>)

\* ------------------------------------ validate_batch_execution.py: operations
\* validate_params of validate_batch_execution.py
gate_validate_params(a) ==
    IF strip(a.issuer_server) = "" THEN PARAM_REQUIRED_EMPTY_CODE
    ELSE IF strip(a.issuer_database) = "" THEN PARAM_REQUIRED_EMPTY_CODE
    ELSE IF strip(a.issuer_user) = "" THEN PARAM_REQUIRED_EMPTY_CODE
    ELSE IF a.run_date # "" /\ a.run_date # NotGiven /\ strptime_raises(a.run_date)
         THEN PARAM_RUN_DATE_INVALID_CODE
         ELSE SUCCESS_CODE

\* SELECT DataTerminoProcessos, TipoMovimento FROM dbo.ControleProcessos
\* WHERE DataMovimento = '{run_date}': the rows fetchone() may return
gate_select_control(table, run_date) ==
    { r \in table : r.DataMovimento = DatetimeOfDate(run_date) }

\* A plausible slip: the completion time is looked at before the movement
\* type, so that a weekend or a holiday without completion time is reported
\* as a batch that has not run.
gate_check_control_CompletionFirst(row) ==
    LET data_termino   == row.DataTerminoProcessos
        tipo_movimento == row.TipoMovimento
    IN  IF data_termino = NULL THEN BATCH_NAO_EXECUTADO_CODE
        ELSE IF tipo_movimento.null \/ tipo_movimento.value \notin {0, 1, 2}
        THEN BATCH_TIPOMOVIMENTO_INDETERMINADO_CODE
        ELSE IF tipo_movimento.value = 0 THEN BATCH_FIM_DE_SEMANA_CODE
        ELSE IF tipo_movimento.value = 2 THEN BATCH_FERIADO_CODE
        ELSE NoCode

\* run_process, from the row to the log line "Batch core finalizado": the
\* code it returns, NoCode when it goes on
gate_check_control(row) ==
    LET data_termino   == row.DataTerminoProcessos
        tipo_movimento == row.TipoMovimento
    IN  IF tipo_movimento.null \/ tipo_movimento.value \notin {0, 1, 2}
        THEN BATCH_TIPOMOVIMENTO_INDETERMINADO_CODE
        ELSE IF tipo_movimento.value = 0 THEN BATCH_FIM_DE_SEMANA_CODE
        ELSE IF tipo_movimento.value = 2 THEN BATCH_FERIADO_CODE
        ELSE IF tipo_movimento.value = 1 /\ data_termino = NULL
             THEN BATCH_NAO_EXECUTADO_CODE
             ELSE NoCode

\* A plausible slip: the WHERE clause loses the date and keeps the flags.
gate_select_complemento_AnyDate(table, run_date) ==
    { r \in table : ~r.FlagExecutado.null /\ r.FlagExecutado.value \in {0, 1} }

\* SELECT cpp.Id_Processo, pp.NomeProcedure, cpp.FlagExecutado FROM
\* dbo.ControleProcessosProcedures cpp LEFT JOIN dbo.ProcessosProcedures pp ..
\* WHERE DataMovimento = '{run_date}' AND FlagExecutado IN (0, 1)
gate_select_complemento(table, run_date) ==
    { r \in table :
        /\ r.DataMovimento = DatetimeOfDate(run_date)
        /\ ~r.FlagExecutado.null
        /\ r.FlagExecutado.value \in {0, 1} }

\* ------------------------------------ validate_batch_execution.py: run_process
\* main: params = parse_arguments(argv); code = validate_params(params);
\* when it is 0, a --run-date left out or empty becomes yesterday's date and
\* run_process starts
gate_main(p) ==
    /\ MayStart(p)
    /\ \E a \in { line \in cmdlines : line.variant = GATE } :
          LET c == gate_validate_params(a)
          IN  IF c = SUCCESS_CODE
              THEN /\ \E yesterday \in RunDates :
                        params' = [params EXCEPT ![p] =
                                     IF a.run_date \in {"", NotGiven}
                                     THEN [a EXCEPT !.run_date = yesterday]
                                     ELSE a]
                   /\ Goto(p, "connect")
              ELSE /\ params' = [params EXCEPT ![p] = a]
                   /\ Exit(p, c)
    /\ UNCHANGED << stores, rowid, error, events >>

\* except pymssql.Error: return DATABASE_ERROR_CODE
gate_run_process_except(p) == Raise(p, DATABASE_ERROR_CODE, <<"raised">>)

\* with (db_connect(...) as conn, conn.cursor() as cursor)
gate_run_process_connect(p) ==
    /\ At(p, GATE, "connect")
    /\ \/ /\ Goto(p, "select_control")
          /\ Record(p, "connected")
          /\ UNCHANGED << stores, params, rowid, error >>
       \/ gate_run_process_except(p)

\* A plausible slip: a date without row is reported as a batch that has not
\* run yet.
gate_run_process_control_MissingAsNotExecuted(p) ==
    /\ At(p, GATE, "select_control")
    /\ LET rows == gate_select_control(ControleProcessos, params[p].run_date)
       IN  \/ /\ rows = {}
              /\ Exit(p, BATCH_NAO_EXECUTADO_CODE)
              /\ Record(p, "read_control")
              /\ UNCHANGED << stores, params, rowid, error >>
           \/ /\ \E row \in rows :
                    LET c == gate_check_control(row)
                    IN  IF c # NoCode THEN Exit(p, c)
                        ELSE IF params[p].wait_batch_complemento
                             THEN Goto(p, "select_complemento")
                             ELSE Exit(p, SUCCESS_CODE)
              /\ Record2(p, "read_control", "checked_control")
              /\ UNCHANGED << stores, params, rowid, error >>
           \/ gate_run_process_except(p)

\* the first SELECT, row = cursor.fetchone(), and the checks on the row
gate_run_process_control(p) ==
    /\ At(p, GATE, "select_control")
    /\ LET rows == gate_select_control(ControleProcessos, params[p].run_date)
       IN  \/ /\ rows = {}
              /\ Exit(p, BATCH_DATAMOVIMENTO_INEXISTENTE_CODE)
              /\ Record(p, "read_control")
              /\ UNCHANGED << stores, params, rowid, error >>
           \/ /\ \E row \in rows :
                    LET c == gate_check_control(row)
                    IN  IF c # NoCode THEN Exit(p, c)
                        ELSE IF params[p].wait_batch_complemento
                             THEN Goto(p, "select_complemento")
                             ELSE Exit(p, SUCCESS_CODE)
              /\ Record2(p, "read_control", "checked_control")
              /\ UNCHANGED << stores, params, rowid, error >>
           \/ gate_run_process_except(p)

\* if params.wait_batch_complemento: the second SELECT and rows = cursor.fetchall()
gate_run_process_complemento(p) ==
    /\ At(p, GATE, "select_complemento")
    /\ LET rows == gate_select_complemento(ControleProcessosProcedures, params[p].run_date)
       IN  \/ /\ IF Cardinality(rows) > 0
                 THEN Exit(p, BATCH_NAO_EXECUTADO_CODE)
                 ELSE Exit(p, SUCCESS_CODE)
              /\ Record(p, "read_complemento")
              /\ UNCHANGED << stores, params, rowid, error >>
           \/ gate_run_process_except(p)

ExecuteStep(p) ==
    \/ main(p)
    \/ run_process_connect(p)
    \/ run_process_check_exists(p)
    \/ run_process_check_batch(p)
    \/ run_process_remove_from_batch(p)
    \/ run_process_check_executed(p)
    \/ run_process_register(p)
    \/ execute_procedure_begin(p)
    \/ execute_procedure_end(p)
    \/ run_process_update_error(p)
    \/ run_process_update_success(p)

ClearingStep(p) ==
    \/ clearing_main(p)
    \/ clearing_run_process_register(p)
    \/ clearing_run_process_check_exists(p)
    \/ clearing_execute_procedure_begin(p)
    \/ clearing_execute_procedure_end(p)
    \/ clearing_run_process_update_error(p)
    \/ clearing_run_process_update_success(p)

\* any interleaving of the invocations
Next == \E p \in Inv : ExecuteStep(p) \/ ClearingStep(p)

Spec == Init /\ [][Next]_vars

\* Invocations that do not overlap: an invocation starts when every earlier
\* one has ended or has stopped for good, and only the latest one runs.
Latest(p) == pc[p] # "idle" /\ \A q \in Inv : q > p => pc[q] = "idle"
SeqNext ==
    \E p \in Inv :
        \/ main(p)
        \/ clearing_main(p)
        \/ Latest(p) /\ pc[p] # "idle" /\ (ExecuteStep(p) \/ ClearingStep(p))

SpecSeq == Init /\ [][SeqNext]_vars

GateStep(p) ==
    \/ gate_main(p)
    \/ gate_run_process_connect(p)
    \/ gate_run_process_control(p)
    \/ gate_run_process_complemento(p)

\* dbo.ProcessosProcedures with n entries, Ordem dense 1..n, the routine of
\* the model at Ordem k (k = 0: the routine is not in the catalog)
OtherRoutines == << "CLOSE_DAY", "REPORTS", "SETTLE", "ARCHIVE", "PURGE", "EXPORT" >>
Catalog(n, k) ==
    { [ Id_Processo |-> 10 * i,
        NomeProcedure |-> IF i = k THEN "SYNC_POSITIONS"
                          ELSE OtherRoutines[IF k = 0 \/ i < k THEN i ELSE i - 1],
        Ordem |-> i ] : i \in 1..n }
Catalogs ==
    { Catalog(n, 0) : n \in 0..MaxCatalog }
        \cup UNION { { Catalog(n, k) : k \in 1..n } : n \in 1..(MaxCatalog + 1) }

\* dbo.HistoricoAutomicLog after an earlier run for the tuple of the model
\* that succeeded, and after one that stopped before its finalize update
SucceededRunLog ==
    Append(OtherRunsLog,
           LogRow("2024-03-01", "emissor1", "10.0.0.1", "SYNC_POSITIONS",
                  SYSDATETIME, NULL, StatusSucceeded))
RegisteredRunLog ==
    Append(OtherRunsLog,
           LogRow("2024-03-01", "emissor1", "10.0.0.1", "SYNC_POSITIONS",
                  NULL, NULL, StatusRegistered))
Logs == {OtherRunsLog, FailedRunLog, SucceededRunLog, RegisteredRunLog}

\* One invocation of any of the three scripts, with any command line, against
\* any of the stores: every object catalog, batch catalog and audit log with
\* one batch control table, or every batch control table with one of the rest.
InitOne ==
    /\ cmdlines = AllCmdLines
    /\ raisable = MSSQLExceptions
    /\ \/ /\ sys_objects \in {ObjectsWith, ObjectsWithout}
          /\ ProcessosProcedures \in Catalogs
          /\ HistoricoAutomicLog \in Logs
          /\ ControleProcessos = ControlTable(SqlInt(1), BatchEnd)
          /\ ControleProcessosProcedures = SubProcessTable({2})
       \/ /\ sys_objects = ObjectsWith
          /\ ProcessosProcedures = CatalogWith
          /\ HistoricoAutomicLog = OtherRunsLog
          /\ ControleProcessos \in ControlTables
          /\ ControleProcessosProcedures \in SubProcessTables
    /\ HistoricoAutomicClearingLog = <<>>
    /\ InitInvocations

NextOne ==
    \E p \in Inv :
        /\ \A q \in Inv : p <= q
        /\ (ExecuteStep(p) \/ ClearingStep(p) \/ GateStep(p))

SpecOne == InitOne /\ [][NextOne]_vars

\* Two runs of any of the three scripts, one after the other, with any
\* command line, so that the outcome of one can be set against the other's.
InitPair ==
    /\ cmdlines = AllCmdLines
    /\ raisable = MSSQLExceptions
    /\ \/ /\ \E s \in InitialStores :
                /\ sys_objects = s.objects
                /\ ProcessosProcedures = s.catalog
                /\ HistoricoAutomicLog = s.log
          /\ ControleProcessos = ControlTable(SqlInt(1), BatchEnd)
          /\ ControleProcessosProcedures \in {SubProcessTable({2}), SubProcessTable({1, 2})}
       \/ /\ sys_objects = ObjectsWith
          /\ ProcessosProcedures = CatalogWith
          /\ HistoricoAutomicLog = OtherRunsLog
          /\ ControleProcessos \in ControlTables
          /\ ControleProcessosProcedures = SubProcessTable({2})
    /\ HistoricoAutomicClearingLog = <<>>
    /\ InitInvocations

PairNext ==
    \E p \in Inv :
        /\ Cardinality({ q \in Inv : q < p }) < 2
        /\ \A q \in Inv : q < p => pc[q] = "done"
        /\ (ExecuteStep(p) \/ ClearingStep(p) \/ GateStep(p))

SpecPair == InitPair /\ [][PairNext]_vars

\* The audit tables are shared with whoever maintains them: a row, the one of
\* a running invocation included, may be deleted at any moment.
delete_audit_row ==
    /\ \/ /\ \E i \in DOMAIN HistoricoAutomicLog :
                /\ HistoricoAutomicLog[i] # Deleted
                /\ HistoricoAutomicLog' = [HistoricoAutomicLog EXCEPT ![i] = Deleted]
          /\ UNCHANGED HistoricoAutomicClearingLog
       \/ /\ \E i \in DOMAIN HistoricoAutomicClearingLog :
                /\ HistoricoAutomicClearingLog[i] # Deleted
                /\ HistoricoAutomicClearingLog' =
                      [HistoricoAutomicClearingLog EXCEPT ![i] = Deleted]
          /\ UNCHANGED HistoricoAutomicLog
    /\ UNCHANGED << readonly, ProcessosProcedures, params, pc, rowid, error, code, events >>

\* One invocation of execute_procedure.py or execute_clearing_procedure.py
\* against audit tables whose rows are being deleted meanwhile.
DeleteNext ==
    \/ \E p \in Inv :
          /\ \A q \in Inv : p <= q
          /\ (ExecuteStep(p) \/ ClearingStep(p))
    \/ delete_audit_row

SpecDelete == Init /\ [][DeleteNext]_vars

\* One invocation of execute_procedure.py or execute_clearing_procedure.py
\* whose process is not stopped and whose store operations all return, with
\* a result or with an error: the step it stands at is taken.
FairNext ==
    \E p \in Inv :
        /\ \A q \in Inv : p <= q
        /\ (ExecuteStep(p) \/ ClearingStep(p))

SpecFair == Init /\ [][FairNext]_vars /\ WF_vars(FairNext)

\* The clearing script alone, once, with every failure of the native
\* connection and the messages of the server during the call.
\* callback_msghandler: the line it logs for a message whose procname is
\* None (NotGiven), empty or a name. The test is an "or": for a procname
\* that is not None the first operand decides, for None the second operand
\* is evaluated and None has no strip.
ProcNames == {NotGiven, "", "SYNC_POSITIONS"}
callback_msghandler(procname) ==
    IF procname # NotGiven
    THEN [raised |-> FALSE, logged |-> "log_warn_procedure"]
    ELSE [raised |-> TRUE, logged |-> "nothing"]
\* the message as the events of the run tell it
MessageOf(procname) ==
    CASE procname = NotGiven -> "message_none"
      [] strip(procname) = "" -> "message_empty"
      [] OTHER -> "message_named"

\* The server sends a message while execute_non_query runs and the driver
\* calls callback_msghandler. An exception raised by the callback is either
\* dropped by the driver, or it leaves execute_non_query, execute_procedure
\* (it is no pymssql.Error and no MSSQLException), run_process and main.
\* At most one message a run.
clearing_msghandler(p) ==
    /\ At(p, CLEARING, "executing")
    /\ \A name \in ProcNames : ~Has(p, MessageOf(name))
    /\ \E procname \in ProcNames :
          LET r == callback_msghandler(procname)
          IN  IF r.raised
              THEN \E dropped \in BOOLEAN :
                     IF dropped
                     THEN /\ Record2(p, MessageOf(procname), "msghandler_raised")
                          /\ UNCHANGED << pc, code >>
                     ELSE /\ Record2(p, MessageOf(procname), "msghandler_uncaught")
                          /\ Exit(p, UNCAUGHT_EXCEPTION_CODE)
              ELSE /\ Record2(p, MessageOf(procname), r.logged)
                   /\ UNCHANGED << pc, code >>
    /\ UNCHANGED << stores, params, rowid, error >>

InitClearing ==
    /\ cmdlines = { line \in AllCmdLines : line.variant = CLEARING }
    /\ raisable = AllMSSQLExceptions
    /\ ControleProcessos = ControlTable(SqlInt(1), BatchEnd)
    /\ ControleProcessosProcedures = SubProcessTable({2})
    /\ sys_objects \in {ObjectsWith, ObjectsWithout}
    /\ ProcessosProcedures = CatalogWith
    /\ HistoricoAutomicLog = OtherRunsLog
    /\ HistoricoAutomicClearingLog = <<>>
    /\ InitInvocations

ClearingNext ==
    \E p \in Inv :
        /\ \A q \in Inv : p <= q
        /\ (ClearingStep(p) \/ clearing_msghandler(p))

SpecClearing == InitClearing /\ [][ClearingNext]_vars

\* ================================================================== claims
\* the rows of dbo.HistoricoAutomicLog for the (routine name, server,
\* database, reference date) of invocation p with a status among statuses
TupleRows(p, statuses) ==
    { i \in DOMAIN HistoricoAutomicLog :
        /\ HistoricoAutomicLog[i].Nome_Procedure = params[p].issuer_procedure
        /\ HistoricoAutomicLog[i].Ip_servidor = params[p].issuer_server
        /\ HistoricoAutomicLog[i].Emissor = params[p].issuer_database
        /\ HistoricoAutomicLog[i].DataMovimento.date = params[p].run_date
        /\ HistoricoAutomicLog[i].StatusExecucao \in statuses }
\* the rows of any other tuple
OtherTupleRows(p, statuses) ==
    { i \in DOMAIN HistoricoAutomicLog :
        /\ \/ HistoricoAutomicLog[i].Nome_Procedure # params[p].issuer_procedure
           \/ HistoricoAutomicLog[i].Ip_servidor # params[p].issuer_server
           \/ HistoricoAutomicLog[i].Emissor # params[p].issuer_database
           \/ HistoricoAutomicLog[i].DataMovimento.date # params[p].run_date
        /\ HistoricoAutomicLog[i].StatusExecucao \in statuses }

\* invocation p leaves the idempotency check in this step
LeavesCheck(p) ==
    /\ At(p, EXECUTE, "check_executed")
    /\ pc'[p] # "check_executed"
\* ... because the query itself raised a communication error
CheckRaised(p) ==
    /\ pc'[p] = "done"
    /\ code'[p] = DATABASE_ERROR_CODE

\* C1: a run without force is rejected with code 101 at the idempotency check
\* exactly when the audit store holds a Registered or Succeeded row for its
\* tuple (unless the query itself fails); Failed rows and rows of other
\* tuples never block it.
C1_NoForceBlockedIffRegisteredOrSucceeded ==
    [][ \A p \in Inv :
          (LeavesCheck(p) /\ ~params[p].force_execution) =>
             LET blocking == TupleRows(p, {StatusRegistered, StatusSucceeded}) # {}
             IN  /\ blocking =>
                       \/ pc'[p] = "done" /\ code'[p] = PROC_JA_EXECUTADA_DATAMOVIMENTO_CODE
                       \/ CheckRaised(p)
                 /\ ~blocking =>
                       \/ pc'[p] = "register" /\ code'[p] = NoCode
                       \/ CheckRaised(p) ]_vars

\* C1 witness: a run without force ended with 101 on a Registered row of its
\* tuple, with no Succeeded row; another passed the check although a Failed
\* row of its tuple and Registered and Succeeded rows of other tuples existed.
C1_Witness ==
    \E p \in Inv, q \in Inv :
        /\ params[p].variant = EXECUTE /\ ~params[p].force_execution
        /\ pc[p] = "done" /\ code[p] = PROC_JA_EXECUTADA_DATAMOVIMENTO_CODE
        /\ TupleRows(p, {StatusRegistered}) # {}
        /\ TupleRows(p, {StatusSucceeded}) = {}
        /\ params[q].variant = EXECUTE /\ ~params[q].force_execution
        /\ Has(q, "passed_executed")
        /\ TupleRows(q, {StatusFailed}) # {}
        /\ OtherTupleRows(q, {StatusRegistered}) # {}
        /\ OtherTupleRows(q, {StatusSucceeded}) # {}

\* C2: a run with force is rejected with code 101 at the idempotency check
\* exactly when the audit store holds a Succeeded row for its tuple (unless
\* the query itself fails), whatever Registered and Failed rows exist.
C2_ForceBlockedIffSucceeded ==
    [][ \A p \in Inv :
          (LeavesCheck(p) /\ params[p].force_execution) =>
             LET blocking == TupleRows(p, {StatusSucceeded}) # {}
             IN  /\ blocking =>
                       \/ pc'[p] = "done" /\ code'[p] = PROC_JA_EXECUTADA_DATAMOVIMENTO_CODE
                       \/ CheckRaised(p)
                 /\ ~blocking =>
                       \/ pc'[p] = "register" /\ code'[p] = NoCode
                       \/ CheckRaised(p) ]_vars

\* C2 witness: a forced run went on to register and run the routine past a
\* Failed row of its tuple, and a later forced run ended with 101 on the
\* Succeeded row although the Failed row was still there.
C2_Witness ==
    \E p \in Inv, q \in Inv :
        /\ params[q].variant = EXECUTE /\ params[q].force_execution
        /\ Has(q, "routine_committed")
        /\ rowid[q] \in TupleRows(q, {StatusSucceeded})
        /\ params[p].variant = EXECUTE /\ params[p].force_execution
        /\ pc[p] = "done" /\ code[p] = PROC_JA_EXECUTADA_DATAMOVIMENTO_CODE
        /\ TupleRows(p, {StatusSucceeded}) # {}
        /\ TupleRows(p, {StatusFailed}) # {}

\* ----------------------------------------------- the record of an invocation
AuditLog(p) ==
    IF params[p].variant = CLEARING THEN HistoricoAutomicClearingLog
    ELSE HistoricoAutomicLog
HasRow(p) == rowid[p] \in DOMAIN AuditLog(p)
Row(p) == AuditLog(p)[rowid[p]]
\* position of the first event e of invocation p, 0 when there is none
Pos(p, e) ==
    IF Has(p, e)
    THEN CHOOSE i \in DOMAIN events[p] :
            events[p][i] = e /\ \A j \in 1..(i - 1) : events[p][j] # e
    ELSE 0
\* p did a, and then b
Before(p, a, b) == Has(p, a) /\ Has(p, b) /\ Pos(p, a) < Pos(p, b)
Ended(p) == pc[p] = "done"
SameTuple(p, q) ==
    /\ params[p].issuer_procedure = params[q].issuer_procedure
    /\ params[p].issuer_server = params[q].issuer_server
    /\ params[p].issuer_database = params[q].issuer_database
    /\ params[p].run_date = params[q].run_date
\* the finalize UPDATE of p was accepted by the audit store
FinalizeCommitted(p) == Has(p, "update_success") \/ Has(p, "update_error")

\* C3: a run that exits with the already-executed code has not registered,
\* has not invoked the routine and has issued no update; and no step of an
\* invocation that has not registered changes either audit table.
C3_AlreadyExecutedLeavesAuditStore ==
    /\ [](\A p \in Inv :
            (Ended(p) /\ params[p].variant = EXECUTE
                /\ code[p] = PROC_JA_EXECUTADA_DATAMOVIMENTO_CODE) =>
               /\ rowid[p] = NoRowid
               /\ ~Has(p, "registered")
               /\ ~Has(p, "invoke_started")
               /\ ~Has(p, "finalize_issued"))
    /\ [][ \A p \in Inv :
             (pc'[p] # pc[p]
                 /\ ~(\E i \in DOMAIN events'[p] : events'[p][i] = "registered")) =>
                /\ HistoricoAutomicLog' = HistoricoAutomicLog
                /\ HistoricoAutomicClearingLog' = HistoricoAutomicClearingLog ]_vars

\* C3 witness: after a run finalized its row to Succeeded, a run without
\* force for the same tuple ended with 101 and has no row of its own.
C3_Witness ==
    \E p \in Inv, q \in Inv :
        /\ params[q].variant = EXECUTE /\ Has(q, "update_success")
        /\ params[p].variant = EXECUTE /\ SameTuple(p, q)
        /\ ~params[p].force_execution
        /\ Ended(p) /\ code[p] = PROC_JA_EXECUTADA_DATAMOVIMENTO_CODE
        /\ rowid[p] = NoRowid

\* the invocations of execute_procedure whose routine ran and was committed
Completed == { p \in Inv : params[p].variant = EXECUTE /\ Has(p, "routine_committed") }

\* C4 as claimed: for one tuple the routine is executed and committed on the
\* issuer store by at most one of the non-overlapping invocations (stated of
\* the invocations that ran to their exit code).
C4_RoutineCompletesAtMostOnce ==
    \A p \in Completed, q \in Completed :
        (Ended(p) /\ Ended(q) /\ SameTuple(p, q)) => p = q

\* C4 as amended: every completion is on record as Registered or Succeeded;
\* at most one row of the tuple is Succeeded; and a further completion happens
\* only in a forced invocation, while every earlier completion of the tuple
\* is still on record as Registered (its finalize update never committed).
C4_AtMostOneRecordedSuccess ==
    /\ \A p \in Completed :
          /\ HasRow(p)
          /\ Row(p).StatusExecucao \in {StatusRegistered, StatusSucceeded}
          /\ Cardinality(TupleRows(p, {StatusSucceeded})) <= 1
    /\ \A p \in Completed, q \in Completed :
          (SameTuple(p, q) /\ q < p) =>
             /\ params[p].force_execution
             /\ Row(q).StatusExecucao = StatusRegistered
             /\ ~FinalizeCommitted(q)

\* C4 witness: the routine completed twice for the tuple: the earlier run's
\* row is still Registered and the later, forced run's row is Succeeded.
C4_Witness ==
    \E p \in Completed, q \in Completed :
        /\ SameTuple(p, q) /\ q < p
        /\ Row(q).StatusExecucao = StatusRegistered
        /\ params[p].force_execution
        /\ Row(p).StatusExecucao = StatusSucceeded
        /\ Ended(p) /\ code[p] = SUCCESS_CODE

\* the checks of run_process that precede the registration in execute_procedure
PreflightPassed(p) ==
    /\ Before(p, "passed_exists", "passed_batch")
    /\ Before(p, "passed_batch", "passed_executed")
    /\ Before(p, "passed_executed", "registered")
\* the registration of p is committed: its row is in the audit table
RegistrationCommitted(p) ==
    /\ Has(p, "registered")
    /\ HasRow(p)
    /\ Row(p).Nome_Procedure = params[p].issuer_procedure
    /\ Row(p).Ip_servidor = params[p].issuer_server
    /\ Row(p).Emissor = params[p].issuer_database

\* C5 as claimed: registration is committed before the routine is invoked,
\* the invocation has returned before any finalize update is issued, and
\* nothing is invoked or finalized without a committed registration.
C5_RegisterInvokeFinalizeOrder ==
    \A p \in Inv :
        /\ Has(p, "invoke_started") =>
              RegistrationCommitted(p) /\ Before(p, "registered", "invoke_started")
        /\ Has(p, "finalize_issued") =>
              /\ RegistrationCommitted(p)
              /\ Before(p, "registered", "finalize_issued")
              /\ Before(p, "invoke_returned", "finalize_issued")

\* C5 as amended: the same, except that execute_clearing_procedure also
\* issues a finalize update when its existence check failed, without having
\* invoked the routine.
C5_RegisterInvokeFinalizeOrderAmended ==
    \A p \in Inv :
        /\ Has(p, "invoke_started") =>
              RegistrationCommitted(p) /\ Before(p, "registered", "invoke_started")
        /\ Has(p, "finalize_issued") =>
              /\ RegistrationCommitted(p)
              /\ Before(p, "registered", "finalize_issued")
              /\ \/ /\ Before(p, "invoke_started", "invoke_returned")
                    /\ Before(p, "invoke_returned", "finalize_issued")
                 \/ /\ params[p].variant = CLEARING
                    /\ Before(p, "exists_failed", "finalize_issued")
                    /\ ~Has(p, "invoke_started")
        /\ pc[p] = "executing" => ~Has(p, "finalize_issued")

\* C5 witness: an execute_procedure run went through registration, invocation
\* and finalize, and an execute_clearing_procedure run finalized after its
\* existence check failed.
C5_Witness ==
    \E p \in Inv, q \in Inv :
        /\ params[p].variant = EXECUTE
        /\ Before(p, "registered", "invoke_started")
        /\ Before(p, "invoke_returned", "finalize_issued")
        /\ params[q].variant = CLEARING
        /\ Before(q, "registered", "exists_failed")
        /\ Before(q, "exists_failed", "finalize_issued")

\* C6: from the start of the routine's invocation until the finalize update
\* of the invocation commits, its row is in the audit table with status
\* Registered and DataHoraFinal and MensagemErro null.
C6_RegisteredRowWhileUnfinalized ==
    \A p \in Inv :
        (Has(p, "invoke_started") /\ ~FinalizeCommitted(p)) =>
           /\ RegistrationCommitted(p)
           /\ Row(p).StatusExecucao = StatusRegistered
           /\ Row(p).DataHoraFinal = NULL
           /\ Row(p).MensagemErro = NULL

\* C6 witness: an invocation is in the middle of the routine while another
\* invocation for the same tuple has finalized its own row.
C6_Witness ==
    \E p \in Inv, q \in Inv :
        /\ p # q /\ SameTuple(p, q)
        /\ params[p].variant = EXECUTE /\ params[q].variant = EXECUTE
        /\ pc[p] = "executing"
        /\ FinalizeCommitted(q)

\* the routine of p returned to run_process without / with an error
ReturnedNoError(p) == Has(p, "invoke_returned") /\ Has(p, "routine_committed")
ReturnedError(p) == Has(p, "routine_failed")
RowSucceeded(p) ==
    /\ HasRow(p)
    /\ Row(p).StatusExecucao = StatusSucceeded
    /\ Row(p).DataHoraFinal # NULL
    /\ Row(p).MensagemErro = NULL
RowFailed(p) ==
    /\ HasRow(p)
    /\ Row(p).StatusExecucao = StatusFailed
    /\ Row(p).DataHoraFinal # NULL
    /\ Row(p).MensagemErro # NULL
    /\ Row(p).MensagemErro # <<>>

\* C7 as claimed: when an invocation that registered ends, its row is
\* Succeeded (time set, no message) if the routine returned no error, and
\* Failed (time set, non-empty message) if the routine returned an error.
C7_RowMatchesOutcomeAtExit ==
    \A p \in Inv :
        (Ended(p) /\ Has(p, "registered")) =>
           /\ ReturnedNoError(p) => RowSucceeded(p)
           /\ ReturnedError(p) => RowFailed(p)

\* one step of an audit table: rows are only appended, a new row is
\* Registered with null time and message, and an old row either stays as it
\* is or goes from Registered to Succeeded or Failed
AuditTableStep(old, new) ==
    /\ Len(new) >= Len(old)
    /\ \A i \in DOMAIN new :
          IF i \in DOMAIN old
          THEN \/ new[i] = old[i]
               \/ /\ old[i].StatusExecucao = StatusRegistered
                  /\ new[i].StatusExecucao \in {StatusSucceeded, StatusFailed}
                  /\ new[i].Nome_Procedure = old[i].Nome_Procedure
                  /\ new[i].Ip_servidor = old[i].Ip_servidor
                  /\ new[i].Emissor = old[i].Emissor
          ELSE /\ new[i].StatusExecucao = StatusRegistered
               /\ new[i].DataHoraFinal = NULL
               /\ new[i].MensagemErro = NULL

\* C8: under any interleaving every audit row is created Registered with
\* null time and message, changes status at most once and only to Succeeded
\* or Failed, is not modified once Succeeded or Failed, and is never deleted.
C8_AuditRowLifecycle ==
    [][ /\ AuditTableStep(HistoricoAutomicLog, HistoricoAutomicLog')
        /\ AuditTableStep(HistoricoAutomicClearingLog, HistoricoAutomicClearingLog') ]_vars

\* C8 witness: two interleaved invocations each created a row; one row is
\* Failed and the other Succeeded.
C8_Witness ==
    \E p \in Inv, q \in Inv :
        /\ p # q /\ params[p].variant = params[q].variant
        /\ Has(p, "update_error") /\ Row(p).StatusExecucao = StatusFailed
        /\ Has(q, "update_success") /\ Row(q).StatusExecucao = StatusSucceeded
        /\ Before(p, "registered", "update_error")
        /\ rowid[q] < rowid[p]

\* a failure of p after its registration: the routine failed (an error of the
\* routine, a communication failure during it, a rollback that failed too),
\* or, in the clearing script, the existence check failed
FailedAfterRegistration(p) ==
    /\ Has(p, "registered")
    /\ Has(p, "routine_failed") \/ Has(p, "exists_failed")
\* the finalize update was issued and the audit store refused it
FinalizeRefused(p) == Has(p, "finalize_issued") /\ ~FinalizeCommitted(p)

\* C9 as claimed: an invocation that failed after its registration has set
\* its row to Failed with the message when it exits (the audit store itself
\* accepting the update).
C9_FailureAfterRegistrationIsRecorded ==
    \A p \in Inv :
        (Ended(p) /\ FailedAfterRegistration(p) /\ ~FinalizeRefused(p)) => RowFailed(p)

\* a preflight check of p failed
PreflightFailed(p) ==
    \/ /\ params[p].variant = EXECUTE
       /\ code[p] \in { PROCEDURE_NOT_EXISTS_CODE,
                        PROC_CADASTRADA_SERVICO_BATCH_CODE,
                        PROC_JA_EXECUTADA_DATAMOVIMENTO_CODE }
    \/ /\ params[p].variant = CLEARING
       /\ Has(p, "exists_failed") /\ error[p] = ProcedureNotFound

\* C10 as claimed: in both scripts a run that fails a preflight check has
\* created no audit row.
C10_PreflightFailureLeavesNoRow ==
    \A p \in Inv :
        (Ended(p) /\ PreflightFailed(p)) => ~Has(p, "registered") /\ rowid[p] = NoRowid

\* C10 as amended: in execute_procedure the registration comes after the
\* three checks and a run that fails one has created no row; in
\* execute_clearing_procedure the registration comes before the existence
\* check, and a run whose routine is not found has a row, for which it
\* issued the update to Failed.
C10_PreflightBeforeRegistrationInExecuteOnly ==
    \A p \in Inv :
        /\ params[p].variant = EXECUTE =>
              /\ Has(p, "registered") => PreflightPassed(p)
              /\ (Ended(p) /\ PreflightFailed(p)) =>
                    ~Has(p, "registered") /\ rowid[p] = NoRowid
        /\ params[p].variant = CLEARING =>
              /\ Has(p, "exists_failed") => Before(p, "registered", "exists_failed")
              /\ Has(p, "passed_exists") => Before(p, "registered", "passed_exists")
              /\ (Ended(p) /\ PreflightFailed(p)) =>
                    /\ RegistrationCommitted(p)
                    /\ Before(p, "exists_failed", "finalize_issued")
                    /\ FinalizeCommitted(p) => RowFailed(p)

\* C10 witness: an execute_procedure run ended with 204 and no row, and an
\* execute_clearing_procedure run whose routine was not found ended with its
\* row set to Failed.
C10_Witness ==
    \E p \in Inv, q \in Inv :
        /\ params[p].variant = EXECUTE /\ Ended(p)
        /\ code[p] = PROCEDURE_NOT_EXISTS_CODE /\ rowid[p] = NoRowid
        /\ params[q].variant = CLEARING /\ Ended(q)
        /\ error[q] = ProcedureNotFound /\ RowFailed(q)

\* every preflight check of p passed: the three checks of execute_procedure,
\* the existence check of execute_clearing_procedure
ChecksPassed(p) ==
    IF params[p].variant = EXECUTE THEN PreflightPassed(p)
    ELSE Before(p, "registered", "passed_exists")

\* C11: a run of execute_procedure or execute_clearing_procedure exits 0 only
\* if the routine exists, every preflight check passed, a record was
\* registered and the routine was invoked and returned no error; and when
\* all that holds and the finalize update was accepted, the run exits 0
\* with its record Succeeded.
C11_ExitZeroIffRoutineSucceeded ==
    \A p \in Inv :
        params[p].variant \in {EXECUTE, CLEARING} =>
           /\ (Ended(p) /\ code[p] = SUCCESS_CODE) =>
                 /\ check_procedure_exists(sys_objects, params[p].issuer_procedure)
                 /\ ChecksPassed(p)
                 /\ RegistrationCommitted(p)
                 /\ Before(p, "registered", "invoke_started")
                 /\ ReturnedNoError(p) /\ ~ReturnedError(p) /\ error[p] = None
                 /\ Has(p, "update_success")
                 /\ RowSucceeded(p)
           /\ (ChecksPassed(p) /\ Has(p, "registered")
                  /\ ReturnedNoError(p) /\ FinalizeCommitted(p)) =>
                 /\ Ended(p) /\ code[p] = SUCCESS_CODE
                 /\ RowSucceeded(p)

\* C11 witness: a run of each script ended with 0 and its record Succeeded,
\* the execute_procedure one having removed the routine from the catalog.
C11_Witness ==
    \E p \in Inv, q \in Inv :
        /\ params[p].variant = EXECUTE /\ Ended(p) /\ code[p] = SUCCESS_CODE
        /\ Has(p, "removed_from_batch") /\ RowSucceeded(p)
        /\ params[q].variant = CLEARING /\ Ended(q) /\ code[q] = SUCCESS_CODE
        /\ RowSucceeded(q)

\* the routine of p is missing from the issuer's object catalog / is in the
\* batch catalog / has a blocking record for the tuple of p
RoutineMissing(p) == ~check_procedure_exists(sys_objects, params[p].issuer_procedure)
InCatalog(p) == \E r \in ProcessosProcedures : r.NomeProcedure = params[p].issuer_procedure
Blocked(p) ==
    TupleRows(p, IF params[p].force_execution THEN {StatusSucceeded}
                 ELSE {StatusRegistered, StatusSucceeded}) # {}

\* C12: the checks run in the order existence, catalog, idempotency and the
\* first that fails ends the run: a missing routine gives 204 whatever the
\* catalog and the audit log hold, a routine of the catalog without the
\* removal switch gives 100 whatever the audit log holds, and a run that
\* ended on a check did nothing after it (203 when a query itself fails).
C12_PreflightOrderFirstFailureEnds ==
    \A p \in Inv :
        (params[p].variant = EXECUTE /\ Has(p, "connected")) =>
           /\ (Ended(p) /\ RoutineMissing(p)) =>
                 code[p] \in {PROCEDURE_NOT_EXISTS_CODE, DATABASE_ERROR_CODE}
           /\ (Ended(p) /\ ~RoutineMissing(p) /\ InCatalog(p)
                  /\ ~params[p].remove_from_batch) =>
                 code[p] \in {PROC_CADASTRADA_SERVICO_BATCH_CODE, DATABASE_ERROR_CODE}
           /\ code[p] = PROCEDURE_NOT_EXISTS_CODE =>
                 RoutineMissing(p) /\ events[p] = <<"connected">>
           /\ code[p] = PROC_CADASTRADA_SERVICO_BATCH_CODE =>
                 /\ ~RoutineMissing(p) /\ InCatalog(p)
                 /\ events[p] = <<"connected", "passed_exists">>
           /\ code[p] = PROC_JA_EXECUTADA_DATAMOVIMENTO_CODE =>
                 /\ ~RoutineMissing(p) /\ ~InCatalog(p) /\ Blocked(p)
                 /\ Before(p, "passed_exists", "passed_batch")
                 /\ ~Has(p, "passed_executed")
           /\ Has(p, "passed_batch") => Before(p, "passed_exists", "passed_batch")
           /\ Has(p, "passed_executed") => Before(p, "passed_batch", "passed_executed")

\* C12 witness: a run ended with 204 although the routine is in the catalog
\* and has a Succeeded record for its tuple.
C12_Witness ==
    \E p \in Inv :
        /\ params[p].variant = EXECUTE /\ Ended(p)
        /\ code[p] = PROCEDURE_NOT_EXISTS_CODE
        /\ InCatalog(p) /\ ~params[p].remove_from_batch
        /\ TupleRows(p, {StatusSucceeded}) # {}

\* C13: when the routine is in the catalog and the removal switch is not
\* given, the catalog check ends the run with 100 (203 when the query fails)
\* and changes no table, with and without the force switch; and a run that
\* ended with 100 has removed nothing, registered nothing, invoked nothing.
C13_CatalogEntryWithoutRemovalEnds100 ==
    /\ [](\A p \in Inv :
            (params[p].variant = EXECUTE /\ Ended(p)
                /\ code[p] = PROC_CADASTRADA_SERVICO_BATCH_CODE) =>
               /\ ~params[p].remove_from_batch
               /\ rowid[p] = NoRowid
               /\ ~Has(p, "removed_from_batch")
               /\ ~Has(p, "registered")
               /\ ~Has(p, "invoke_started"))
    /\ [][ \A p \in Inv :
             (At(p, EXECUTE, "check_batch") /\ pc'[p] # "check_batch"
                 /\ InCatalog(p) /\ ~params[p].remove_from_batch) =>
                /\ pc'[p] = "done"
                /\ code'[p] \in {PROC_CADASTRADA_SERVICO_BATCH_CODE, DATABASE_ERROR_CODE}
                /\ ProcessosProcedures' = ProcessosProcedures
                /\ HistoricoAutomicLog' = HistoricoAutomicLog
                /\ HistoricoAutomicClearingLog' = HistoricoAutomicClearingLog ]_vars

\* C13 witness: a forced run without the removal switch ended with 100, the
\* routine still in the catalog and only a Failed record for its tuple.
C13_Witness ==
    \E p \in Inv :
        /\ params[p].variant = EXECUTE /\ Ended(p)
        /\ code[p] = PROC_CADASTRADA_SERVICO_BATCH_CODE
        /\ params[p].force_execution
        /\ InCatalog(p)
        /\ TupleRows(p, {StatusFailed}) # {}
        /\ TupleRows(p, {StatusRegistered, StatusSucceeded}) = {}

\* the catalog has Ordem dense 1..N, without gaps or duplicates
Dense(catalog) ==
    /\ { r.Ordem : r \in catalog } = 1..Cardinality(catalog)
    /\ \A r1 \in catalog, r2 \in catalog : r1.Ordem = r2.Ordem => r1 = r2

\* C14: the removal of the routine's entry, of Ordem k, from a catalog of N
\* entries with Ordem dense 1..N deletes that entry only, leaves every entry
\* with Ordem < k as it is, takes 1 off the Ordem of every entry with
\* Ordem > k, and the result is dense 1..N-1.
C14_RemovalRenumbersDense ==
    [][ \A p \in Inv :
          (At(p, EXECUTE, "remove_batch") /\ pc'[p] = "check_executed"
              /\ Dense(ProcessosProcedures)
              /\ Cardinality({ r \in ProcessosProcedures :
                                 r.NomeProcedure = params[p].issuer_procedure }) = 1) =>
             LET old   == ProcessosProcedures
                 new   == ProcessosProcedures'
                 entry == CHOOSE r \in old : r.NomeProcedure = params[p].issuer_procedure
                 k     == entry.Ordem
             IN  /\ Cardinality(new) = Cardinality(old) - 1
                 /\ \A r \in new : r.NomeProcedure # params[p].issuer_procedure
                 /\ \A r \in old \ {entry} :
                       IF r.Ordem < k THEN r \in new
                       ELSE [r EXCEPT !.Ordem = r.Ordem - 1] \in new
                 /\ Dense(new) ]_vars

\* C14 witness: the routine was removed from the second place of four; the
\* first entry kept Ordem 1 and the third and fourth now have Ordem 2 and 3.
C14_Witness ==
    \E p \in Inv :
        /\ Has(p, "removed_from_batch")
        /\ ProcessosProcedures =
             { [Id_Processo |-> 10, NomeProcedure |-> "CLOSE_DAY", Ordem |-> 1],
               [Id_Processo |-> 30, NomeProcedure |-> "REPORTS", Ordem |-> 2],
               [Id_Processo |-> 40, NomeProcedure |-> "SETTLE", Ordem |-> 3] }

\* ---------------------------------------------------- the readiness check
\* the control rows and the unfinished sub-process rows of the date of p
ControlRows(p) ==
    { r \in ControleProcessos : r.DataMovimento.date = params[p].run_date }
Unfinished(p) ==
    { r \in ControleProcessosProcedures :
        /\ r.DataMovimento.date = params[p].run_date
        /\ r.FlagExecutado = SqlInt(0) \/ r.FlagExecutado = SqlInt(1) }
\* a run of the readiness check that ended after its connection was opened,
\* by a return of run_process and not by a communication error
Answered(p) ==
    /\ params[p].variant = GATE /\ Ended(p)
    /\ Has(p, "connected") /\ ~Has(p, "raised")

\* C15: for a date with a control row the outcome follows TipoMovimento and
\* DataTerminoProcessos: 0 gives 101, 2 gives 102, 1 without completion
\* gives 100, 1 with completion and no unfinished sub-process gives 0, any
\* other value and NULL give 104; 101, 102 and 104 whatever the completion.
C15_OutcomeByMovementType ==
    \A p \in Inv : \A row \in ControlRows(p) :
        Answered(p) =>
           LET tipo == row.TipoMovimento
               done == row.DataTerminoProcessos # NULL
           IN  /\ tipo = SqlInt(0) => code[p] = BATCH_FIM_DE_SEMANA_CODE
               /\ tipo = SqlInt(2) => code[p] = BATCH_FERIADO_CODE
               /\ (tipo = SqlInt(1) /\ ~done) => code[p] = BATCH_NAO_EXECUTADO_CODE
               /\ (tipo = SqlInt(1) /\ done /\ Unfinished(p) = {}) =>
                     code[p] = SUCCESS_CODE
               /\ tipo \notin {SqlInt(0), SqlInt(1), SqlInt(2)} =>
                     code[p] = BATCH_TIPOMOVIMENTO_INDETERMINADO_CODE

\* C15 witness: a date whose row has TipoMovimento NULL and a completion time
\* ended with 104.
C15_Witness ==
    \E p \in Inv : \E row \in ControlRows(p) :
        /\ Answered(p)
        /\ row.TipoMovimento = SqlNullInt
        /\ row.DataTerminoProcessos # NULL
        /\ code[p] = BATCH_TIPOMOVIMENTO_INDETERMINADO_CODE

\* C16: for a date without control row the run ends with 103, which is not
\* the code of a batch that has not run, right after the first query: the
\* row checks and the sub-process query do not happen.
C16_MissingControlRowEnds103 ==
    /\ BATCH_DATAMOVIMENTO_INEXISTENTE_CODE # BATCH_NAO_EXECUTADO_CODE
    /\ \A p \in Inv :
          Answered(p) =>
             /\ ControlRows(p) = {} =>
                   /\ code[p] = BATCH_DATAMOVIMENTO_INEXISTENTE_CODE
                   /\ events[p] = <<"connected", "read_control">>
             /\ code[p] = BATCH_DATAMOVIMENTO_INEXISTENTE_CODE => ControlRows(p) = {}

\* C16 witness: a run with the wait switch for a date without control row,
\* and with a running sub-process row, ended with 103.
C16_Witness ==
    \E p \in Inv :
        /\ Answered(p) /\ params[p].wait_batch_complemento
        /\ ControlRows(p) = {} /\ Unfinished(p) # {}
        /\ code[p] = BATCH_DATAMOVIMENTO_INEXISTENTE_CODE

\* C17: for a business day whose batch is complete, a run with the wait
\* switch ends with 100 exactly when a sub-process row of the date has
\* FlagExecutado 0 or 1, and with 0 otherwise (flags of 2 and more, no row);
\* a run without the switch ends with 0 whatever the sub-process rows.
C17_WaitSwitchAndSubProcesses ==
    \A p \in Inv : \A row \in ControlRows(p) :
        (Answered(p) /\ row.TipoMovimento = SqlInt(1)
            /\ row.DataTerminoProcessos # NULL) =>
           IF params[p].wait_batch_complemento
           THEN /\ Unfinished(p) # {} => code[p] = BATCH_NAO_EXECUTADO_CODE
                /\ Unfinished(p) = {} => code[p] = SUCCESS_CODE
                /\ Has(p, "read_complemento")
           ELSE code[p] = SUCCESS_CODE /\ ~Has(p, "read_complemento")

\* C17 witness: with the wait switch, rows of the date with flags 2 and 3
\* and unfinished rows of other dates only, the run ended with 0.
C17_Witness ==
    \E p \in Inv :
        /\ Answered(p) /\ params[p].wait_batch_complemento
        /\ Has(p, "read_complemento")
        /\ code[p] = SUCCESS_CODE
        /\ \E r \in ControleProcessosProcedures :
              r.DataMovimento.date = params[p].run_date /\ r.FlagExecutado = SqlInt(2)
        /\ \E r \in ControleProcessosProcedures :
              r.DataMovimento.date = params[p].run_date /\ r.FlagExecutado = SqlInt(3)
        /\ \E r \in ControleProcessosProcedures :
              r.DataMovimento.date # params[p].run_date /\ r.FlagExecutado = SqlInt(0)

\* ------------------------------------------------------ outcomes and codes
\* What ended the run p, told from what the run did: it ended in main before
\* run_process ("parameter"), an operation raised to the except clause of
\* run_process ("communication"), or run_process returned at one of its
\* decisions.
Outcome(p) ==
    IF events[p] = <<>> THEN "parameter"
    ELSE IF Has(p, "raised") \/ Has(p, "rollback_raised") THEN "communication"
    ELSE IF params[p].variant = EXECUTE
    THEN IF ~Has(p, "passed_exists") THEN "not_found"
         ELSE IF ~Has(p, "passed_batch") THEN "already_scheduled"
         ELSE IF ~Has(p, "passed_executed") THEN "already_executed"
         ELSE IF Has(p, "routine_failed") THEN "execution"
         ELSE "success"
    ELSE IF params[p].variant = CLEARING
    THEN IF Has(p, "exists_failed")
         THEN (IF error[p] = ProcedureNotFound THEN "not_found" ELSE "communication")
         ELSE IF Has(p, "routine_failed") THEN "execution"
         ELSE "success"
    ELSE IF ControlRows(p) = {} THEN "missing_row"
         ELSE LET row == CHOOSE r \in ControlRows(p) : TRUE
              IN  IF row.TipoMovimento = SqlInt(0) THEN "weekend"
                  ELSE IF row.TipoMovimento = SqlInt(2) THEN "holiday"
                  ELSE IF row.TipoMovimento # SqlInt(1) THEN "indeterminate"
                  ELSE IF row.DataTerminoProcessos = NULL THEN "not_finished"
                  ELSE IF params[p].wait_batch_complemento /\ Unfinished(p) # {}
                       THEN "complement_not_finished"
                       ELSE "success"
\* precondition and business-rule failures; parameter and connectivity failures
BusinessFailures ==
    { "already_scheduled", "already_executed", "weekend", "holiday",
      "indeterminate", "missing_row", "not_finished", "complement_not_finished" }
TechnicalFailures == { "parameter", "communication", "not_found", "execution" }

DifferentFailures(p, q) ==
    /\ params[p].variant = params[q].variant
    /\ Ended(p) /\ Ended(q)
    /\ Outcome(p) # "success" /\ Outcome(q) # "success"
    /\ Outcome(p) # Outcome(q)

\* C19 as claimed: within one script no two runs that ended on different
\* kinds of failure have the same exit code.
C19_FailureKindsHaveOwnCodes ==
    \A p \in Inv, q \in Inv :
        DifferentFailures(p, q) => code[p] # code[q]

\* the kinds of failure that one script reports with one code
SharedCode(variant, kinds) ==
    \/ variant = EXECUTE /\ kinds = {"communication", "execution"}
    \/ variant = GATE /\ kinds = {"not_finished", "complement_not_finished"}
    \/ variant = CLEARING /\ kinds \subseteq {"not_found", "communication", "execution"}

\* C19 as amended: that holds except for the communication and the routine
\* execution failure of execute_procedure (203), the unfinished batch and
\* the unfinished complementary batch of validate_batch_execution (100), and
\* the routine not found, not looked up and failed of
\* execute_clearing_procedure (201); and a run that ended on a failure of a
\* check did nothing after it.
C19_FailureKindsHaveOwnCodesButShared ==
    /\ \A p \in Inv, q \in Inv :
          (DifferentFailures(p, q)
              /\ ~SharedCode(params[p].variant, {Outcome(p), Outcome(q)})) =>
             code[p] # code[q]
    /\ \A p \in Inv :
          (Ended(p) /\ Outcome(p) \in BusinessFailures \cup {"parameter", "not_found"}) =>
             /\ ~Has(p, "invoke_started")
             /\ params[p].variant # CLEARING =>
                   ~Has(p, "registered") /\ ~Has(p, "finalize_issued")

\* C19 witness: of two runs of execute_procedure one ended on a failure of
\* the routine and the other on a blank parameter, with 203 and 202.
C19_Witness ==
    \E p \in Inv, q \in Inv :
        /\ DifferentFailures(p, q)
        /\ params[p].variant = EXECUTE
        /\ Outcome(p) = "execution" /\ code[p] = DATABASE_ERROR_CODE
        /\ Outcome(q) = "parameter" /\ code[q] = PARAM_REQUIRED_EMPTY_CODE

\* the command line of p has a blank required value or a --run-date that is
\* not a date
BadArguments(p) ==
    /\ params[p].variant \in {EXECUTE, GATE}
    /\ \/ \E option \in RequiredOptions(params[p].variant) :
             params[p][option] \in Blank
       \/ params[p].run_date \in BadRunDates

\* C20 as claimed: a run of execute_procedure or validate_batch_execution
\* with a blank required value (server, database, user, password of either
\* store, routine name) or an invalid --run-date ends with a parameter code
\* (202, 201) without opening a connection or touching a store.
C20_BadArgumentsEndBeforeConnect ==
    \A p \in Inv :
        BadArguments(p) =>
           /\ pc[p] = "done"
           /\ code[p] \in {PARAM_REQUIRED_EMPTY_CODE, PARAM_RUN_DATE_INVALID_CODE}
           /\ events[p] = <<>>
           /\ rowid[p] = NoRowid

\* C22: the idempotency check and the registration are separate steps with
\* nothing held between them: an invocation registers only after it passed
\* the check, holds no record while it stands between the two, and two runs
\* of one tuple that both registered hold two different records; so two runs
\* without force that both pass before either registers both go on to
\* register and to invoke the routine.
C22_CheckThenRegisterUnlocked ==
    \A p \in Inv :
        params[p].variant = EXECUTE =>
           /\ Has(p, "registered") => Before(p, "passed_executed", "registered")
           /\ Has(p, "invoke_started") => Before(p, "registered", "invoke_started")
           /\ (Has(p, "passed_executed") /\ ~Has(p, "registered")) =>
                 /\ rowid[p] = NoRowid
                 /\ \/ pc[p] = "register"
                    \/ Ended(p) /\ code[p] = DATABASE_ERROR_CODE
           /\ \A q \in Inv \ {p} :
                 (params[q].variant = EXECUTE /\ SameTuple(p, q)
                    /\ Has(p, "registered") /\ Has(q, "registered")) =>
                       /\ HasRow(p) /\ HasRow(q)
                       /\ rowid[p] # rowid[q]

\* C22 witness: two runs without force of one tuple, whose only rows are
\* their own two, have both sent the routine's EXEC while both rows are
\* still Registered.
C22_Witness ==
    \E p \in Inv, q \in Inv :
        /\ p # q /\ SameTuple(p, q)
        /\ params[p].variant = EXECUTE /\ params[q].variant = EXECUTE
        /\ ~params[p].force_execution /\ ~params[q].force_execution
        /\ Has(p, "invoke_started") /\ Has(q, "invoke_started")
        /\ TupleRows(p, {StatusRegistered}) = {rowid[p], rowid[q]}
        /\ TupleRows(p, {StatusSucceeded, StatusFailed}) = {}

\* dbo.ProcessosProcedures changes in exactly the steps in which an invocation
\* deletes its routine's entry from it
HasNext(p, e) == \E i \in DOMAIN events'[p] : events'[p][i] = e
CatalogStep ==
    (ProcessosProcedures' # ProcessosProcedures) <=>
        \E p \in Inv : ~Has(p, "removed_from_batch") /\ HasNext(p, "removed_from_batch")

\* C27 as claimed: a run that ends with a precondition failure (100 already
\* scheduled, 101 already executed) has changed nothing in the batch catalog,
\* also when --remove-from-batch was given and the routine was in the catalog.
C27_PreconditionFailureLeavesCatalog ==
    /\ [][CatalogStep]_vars
    /\ [](\A p \in Inv :
            (params[p].variant = EXECUTE /\ Ended(p)
               /\ code[p] \in { PROC_CADASTRADA_SERVICO_BATCH_CODE,
                                PROC_JA_EXECUTADA_DATAMOVIMENTO_CODE }) =>
               ~Has(p, "removed_from_batch"))

\* C27 as amended: a run that ends with 100 has changed nothing in the batch
\* catalog (the routine is still in it and no removal was asked for); a run
\* that ends with 101 leaves the catalog without the routine: it has changed
\* the catalog exactly when the routine was in it, which takes the removal
\* switch, and the removal was done before the idempotency check and stays.
C27_AlreadyExecutedKeepsRemoval ==
    /\ [][CatalogStep]_vars
    /\ [](\A p \in Inv :
            (params[p].variant = EXECUTE /\ Ended(p)) =>
               /\ code[p] = PROC_CADASTRADA_SERVICO_BATCH_CODE =>
                     /\ ~Has(p, "removed_from_batch")
                     /\ ~params[p].remove_from_batch
                     /\ InCatalog(p)
               /\ code[p] = PROC_JA_EXECUTADA_DATAMOVIMENTO_CODE =>
                     /\ ~InCatalog(p)
                     /\ Blocked(p)
                     /\ Has(p, "removed_from_batch") =>
                           /\ params[p].remove_from_batch
                           /\ Before(p, "removed_from_batch", "passed_batch"))

\* C27 witness: a run with --remove-from-batch ended with 101 after it had
\* deleted the routine's entry, and the catalog no longer holds the routine.
C27_Witness ==
    \E p \in Inv :
        /\ params[p].variant = EXECUTE /\ Ended(p)
        /\ code[p] = PROC_JA_EXECUTADA_DATAMOVIMENTO_CODE
        /\ params[p].remove_from_batch
        /\ Has(p, "removed_from_batch")
        /\ ~InCatalog(p)

\* in this step every record of the audit table is kept, and one that changes
\* is the record whose id the registration of an invocation of this script
\* returned, changed by that invocation's finalize update
OwnRecordStep(old, new, variant) ==
    \A i \in DOMAIN old :
        /\ i \in DOMAIN new
        /\ new[i] # old[i] =>
              \E p \in Inv :
                  /\ At(p, variant, "finalize") /\ pc'[p] = "done"
                  /\ Has(p, "registered")
                  /\ rowid[p] = i

\* C28: the finalize update of an invocation changes only the record whose id
\* its own registration returned; every other record, of the same tuple or
\* not, is left as it is by every step, so a Registered record that a forced
\* retry bypassed is still Registered when the retry has finished.
C28_FinalizeUpdatesOwnRecordOnly ==
    /\ [][ /\ OwnRecordStep(HistoricoAutomicLog, HistoricoAutomicLog', EXECUTE)
           /\ OwnRecordStep(HistoricoAutomicClearingLog,
                            HistoricoAutomicClearingLog', CLEARING) ]_vars
    /\ [](\A p \in Inv, q \in Inv :
            (p # q /\ params[p].variant = params[q].variant
               /\ Has(p, "registered") /\ Has(q, "registered")) =>
               rowid[p] # rowid[q])

\* C28 witness: a run left its record Registered (its finalize update was
\* refused), a forced retry of the same tuple went past it, registered its
\* own record and finalized it, and the first record is still Registered.
C28_Witness ==
    \E p \in Inv, q \in Inv :
        /\ q < p /\ SameTuple(p, q)
        /\ params[p].variant = EXECUTE /\ params[q].variant = EXECUTE
        /\ Ended(q) /\ FinalizeRefused(q)
        /\ params[p].force_execution
        /\ Ended(p) /\ FinalizeCommitted(p)
        /\ rowid[p] # rowid[q]
        /\ Row(q).StatusExecucao = StatusRegistered
        /\ Row(p).StatusExecucao \in {StatusSucceeded, StatusFailed}

\* how many times invocation p did e
Count(p, e) == Cardinality({ i \in DOMAIN events[p] : events[p][i] = e })
\* the events that mark the failure of a stage
Failures == { "raised", "routine_failed", "rollback_raised", "exists_failed" }
\* the number of invocations of a script that register in this step
Registering(variant) ==
    Cardinality({ p \in Inv : /\ params'[p].variant = variant
                              /\ ~Has(p, "registered")
                              /\ HasNext(p, "registered") })

\* C25: within one invocation every stage is attempted at most once: the
\* routine is invoked at most once and at most one audit record is inserted
\* (the audit tables grow by one row per registration and not otherwise);
\* after a failure the only thing a run still does is the one finalize
\* update, and after an error raised to run_process it does nothing.
C25_NoInternalRetry ==
    /\ [][ /\ Len(HistoricoAutomicLog') = Len(HistoricoAutomicLog) + Registering(EXECUTE)
           /\ Len(HistoricoAutomicClearingLog') =
                 Len(HistoricoAutomicClearingLog) + Registering(CLEARING) ]_vars
    /\ [](\A p \in Inv :
            /\ \A i \in DOMAIN events[p], j \in DOMAIN events[p] :
                  events[p][i] = events[p][j] => i = j
            /\ \A f \in Failures :
                  Has(p, f) =>
                     \A i \in DOMAIN events[p] :
                         Pos(p, f) < i =>
                            events[p][i] \in { "invoke_returned", "rollback_raised",
                                               "finalize_issued", "update_error", "raised" }
            /\ Has(p, "raised") => (Ended(p) /\ Pos(p, "raised") = Len(events[p])))

\* C25 witness: the routine failed in a run that had registered; the run
\* recorded the failure and ended with one invocation and one registration.
C25_Witness ==
    \E p \in Inv :
        /\ Ended(p) /\ Has(p, "routine_failed") /\ Has(p, "update_error")
        /\ Count(p, "invoke_started") = 1
        /\ Count(p, "registered") = 1
        /\ code[p] \in {DATABASE_ERROR_CODE, CLEARING_PROCEDURE_ERROR_CODE}

\* the place of p's record in its audit table holds no row any more
RecordDeleted(p) == rowid[p] \in DOMAIN AuditLog(p) /\ AuditLog(p)[rowid[p]] = Deleted

\* C23: a finalize update that is accepted and affects no row, because the
\* record was deleted meanwhile, changes nothing in the audit tables, and the
\* run ends with the code of the execution outcome: 0 after a routine that
\* returned no error, the failure code (203, 201 in the clearing script)
\* after one that failed.
C23_ZeroRowsKeepExitCode ==
    [][ \A p \in Inv :
          (pc[p] = "finalize" /\ pc'[p] = "done"
              /\ RecordDeleted(p) /\ ~HasNext(p, "raised")) =>
             /\ HasNext(p, "no_row_updated")
             /\ HistoricoAutomicLog' = HistoricoAutomicLog
             /\ HistoricoAutomicClearingLog' = HistoricoAutomicClearingLog
             /\ code'[p] = IF error[p] = None THEN SUCCESS_CODE
                           ELSE IF params[p].variant = CLEARING
                                THEN CLEARING_PROCEDURE_ERROR_CODE
                                ELSE DATABASE_ERROR_CODE ]_vars

\* C23 witness: the record of a run was deleted while its routine ran; the
\* routine returned no error, the success update found no row and the run
\* ended with 0.
C23_Witness ==
    \E p \in Inv :
        /\ Ended(p) /\ Has(p, "no_row_updated") /\ RecordDeleted(p)
        /\ Has(p, "routine_committed") /\ Has(p, "update_success")
        /\ code[p] = SUCCESS_CODE

\* invocation p has started
Started(p) == pc[p] # "idle"

\* C26 as claimed: an invocation whose process is not stopped and whose store
\* operations all return ends, with one exit code that it keeps; and one that
\* committed its registration and whose audit-store operations all succeeded
\* ends with its record Succeeded or Failed, never still Registered.
C26_TerminatesWithRecordFinalized ==
    /\ \A p \in Inv : Started(p) ~> Ended(p)
    /\ [](\A p \in Inv : Ended(p) <=> code[p] # NoCode)
    /\ [][ \A p \in Inv : Ended(p) => (Ended(p)' /\ code'[p] = code[p]) ]_vars
    /\ [](\A p \in Inv :
            (Ended(p) /\ RegistrationCommitted(p) /\ ~Has(p, "raised")) =>
               Row(p).StatusExecucao \in {StatusSucceeded, StatusFailed})

\* the class of the error execute_procedure of the clearing script hands to
\* run_process for an exception of the native connection, by the table of
\* the script
Taxonomy(raised) ==
    IF raised.type = "MSSQLDatabaseException"
    THEN IF raised.number \in {102, 207, 208, 2812, 4104} THEN "ProgrammingError"
         ELSE IF raised.number \in {515, 547, 2601, 2627} THEN "IntegrityError"
         ELSE "OperationalError"
    ELSE IF raised.type = "MSSQLDriverException" THEN "InternalError"
    ELSE "DatabaseError"

\* C21: every failure the native connection raises during the call of the
\* clearing script is mapped to one class: an error of the database with
\* number 102, 207, 208, 2812 or 4104 to ProgrammingError, with number 515,
\* 547, 2601 or 2627 to IntegrityError, with another number to
\* OperationalError, an error of the driver itself to InternalError and any
\* other to DatabaseError; no failure leaves the classifier unmapped.
C21_ClassifierMapsEveryFailure ==
    \A p \in Inv :
        At(p, CLEARING, pc[p]) /\ Has(p, "routine_failed") =>
            /\ ~Has(p, "uncaught")
            /\ error[p].class \in
                  { e.class : e \in RoutineErrors } \cup { Taxonomy(raised) : raised \in raisable }
            /\ \A raised \in raisable :
                  clearing_execute_procedure_except(raised).error.class = Taxonomy(raised)

\* C24: a message of the server during the call of the clearing script is
\* logged as a warning and never ends or fails the run, whether its routine
\* name is None, empty or a name; the routine name is in the logged line
\* only when it is known.
C24_MessageLoggedRunGoesOn ==
    \A p \in Inv :
        /\ Has(p, "message_named") => Has(p, "log_warn_procedure")
        /\ (Has(p, "message_none") \/ Has(p, "message_empty")) =>
               Has(p, "log_warn") /\ ~Has(p, "log_warn_procedure")
        /\ ~Has(p, "msghandler_raised")
        /\ ~Has(p, "msghandler_uncaught")

=============================================================================
